---- MODULE Spec2Model ----
(***************************************************************************)
(* State-machine model of the sculpt pose brush                            *)
(* (source/blender/editors/sculpt_paint/sculpt_pose.cc): IK chain          *)
(* construction, the segment solvers and the per-frame brush step.         *)
(*                                                                         *)
(* float values are modelled as fixed-point integers: a position is a      *)
(* triple of integers, a unit vector or a quaternion has components scaled *)
(* by One, and every division or square root rounds to the nearest         *)
(* integer, as a float operation rounds to the nearest float.              *)
(***************************************************************************)
EXTENDS Integers, Sequences, FiniteSets, TLC

\* ------------------------------------------------------------------ bounds

\* Fixed-point scale of unit vectors, quaternions and factors (1.0f).
One == 1000

\* Rounding tolerance, in position units, of a comparison "within epsilon".
Eps == 4

\* Number of do_pose_brush calls modelled in one stroke.
MaxFrames == 2

\* Greatest number of segments a brush is configured with (pose_ik_segments).
MaxSegments == 3

\* ------------------------------------------------------- fixed-point maths

Abs(a) == IF a < 0 THEN -a ELSE a

Sign(a) == IF a < 0 THEN -1 ELSE 1

\* a / b rounded to the nearest integer (b > 0).
RDiv(a, b) == Sign(a) * ((2 * Abs(a) + b) \div (2 * b))

\* The greatest r in lo..hi with r * r <= n, by bisection.
RECURSIVE SqrtSearch(_, _, _)
SqrtSearch(n, lo, hi) ==
  IF lo >= hi THEN lo
  ELSE CHOOSE r \in {IF mid * mid <= n THEN SqrtSearch(n, mid, hi)
                                       ELSE SqrtSearch(n, lo, mid - 1) :
                       mid \in {(lo + hi + 1) \div 2}} : TRUE

\* The integer nearest to the square root of n, r being its integer part.
SqrtRound(n, r) == IF n - r * r > r THEN r + 1 ELSE r

\* sqrtf(n) rounded to the nearest integer (n >= 0).
Sqrt(n) == SqrtRound(n, SqrtSearch(n, 0, 46000))

Zero3 == <<0, 0, 0>>

VAdd(a, b) == <<a[1] + b[1], a[2] + b[2], a[3] + b[3]>>

VSub(a, b) == <<a[1] - b[1], a[2] - b[2], a[3] - b[3]>>

\* v * (f / One): a vector times a fixed-point float.
VMulFl(v, f) == <<RDiv(v[1] * f, One), RDiv(v[2] * f, One), RDiv(v[3] * f, One)>>

\* v / n for an integer count n.
VDivInt(v, n) == <<RDiv(v[1], n), RDiv(v[2], n), RDiv(v[3], n)>>

Dot(a, b) == a[1] * b[1] + a[2] * b[2] + a[3] * b[3]

LenSquared(a, b) == Dot(VSub(a, b), VSub(a, b))

Length(v) == Sqrt(Dot(v, v))

Distance(a, b) == Length(VSub(a, b))

\* math::normalize: the zero vector for a vector of length zero.
NormalizeBy(v, l) ==
  IF l = 0 THEN Zero3
  ELSE <<RDiv(v[1] * One, l), RDiv(v[2] * One, l), RDiv(v[3] * One, l)>>

\* The length of a short vector is known to the nearest unit only, so the
\* quotient is divided by its own length once more: the result has length
\* One within the rounding of its components, as the float result has.
Normalize(v) ==
  CHOOSE r \in {NormalizeBy(n, Length(n)) : n \in {NormalizeBy(v, Length(v))}} : TRUE

\* Equality of two positions within the rounding tolerance.
Near3(a, b) ==
  /\ Abs(a[1] - b[1]) <= Eps
  /\ Abs(a[2] - b[2]) <= Eps
  /\ Abs(a[3] - b[3]) <= Eps

Max(a, b) == IF a > b THEN a ELSE b

\* ------------------------------------------------------------- quaternions

\* unit_qt
unit_qt == <<One, 0, 0, 0>>

Cross(a, b) ==
  <<RDiv(a[2] * b[3] - a[3] * b[2], One),
    RDiv(a[3] * b[1] - a[1] * b[3], One),
    RDiv(a[1] * b[2] - a[2] * b[1], One)>>

\* ortho_v3_v3: a vector orthogonal to v, chosen by v's dominant axis.
ortho_v3_v3(v) ==
  IF Abs(v[1]) > Abs(v[2])
  THEN (IF Abs(v[1]) > Abs(v[3]) THEN <<-v[2] - v[3], v[1], v[1]>>
        ELSE <<v[3], v[3], -v[1] - v[2]>>)
  ELSE (IF Abs(v[2]) > Abs(v[3]) THEN <<v[2], -v[1] - v[3], v[2]>>
        ELSE <<v[3], v[3], -v[1] - v[2]>>)

\* axis_angle_normalized_to_quat with the angle given by its cosine c (scaled
\* by One): q = (cos(angle/2), axis * sin(angle/2)).
AxisCosToQuat(axis, c) ==
  <<Sqrt(((One + c) * One) \div 2)>> \o VMulFl(axis, Sqrt(((One - c) * One) \div 2))

\* A cosine clamped to [-1, 1], as angle_normalized_v3v3 clamps it.
ClampCos(c) == IF c > One THEN One ELSE IF c < -One THEN -One ELSE c

\* The quaternion of a rotation by 180 degrees around the normalized axis o.
HalfTurnQuat(o) == <<0, o[1], o[2], o[3]>>

\* rotation_between_vecs_to_quat for two normalized vectors, axis being
\* their cross product.
RotationBetweenVecs(v1, v2, axis) ==
  IF Length(axis) > 0
  THEN AxisCosToQuat(Normalize(axis), ClampCos(RDiv(Dot(v1, v2), One)))
  ELSE IF Dot(v1, v2) > 0
       THEN unit_qt
       ELSE HalfTurnQuat(Normalize(ortho_v3_v3(v1)))

rotation_between_vecs_to_quat(v1, v2) == RotationBetweenVecs(v1, v2, Cross(v1, v2))

\* cos and sin of k * 22.5 degrees, scaled by One (k = 0 .. 8).
HalfCos == <<1000, 924, 707, 383, 0, -383, -707, -924, -1000>>

HalfSin == <<0, 383, 707, 924, 1000, 924, 707, 383, 0>>

\* axis_angle_normalized_to_quat for an angle of k * 45 degrees.
axis_angle_normalized_to_quat(axis, k) ==
  <<HalfCos[k + 1]>> \o VMulFl(axis, HalfSin[k + 1])

\* mul_qt_qtqt
mul_qt_qtqt(a, b) ==
  <<RDiv(a[1] * b[1] - a[2] * b[2] - a[3] * b[3] - a[4] * b[4], One),
    RDiv(a[1] * b[2] + a[2] * b[1] + a[3] * b[4] - a[4] * b[3], One),
    RDiv(a[1] * b[3] + a[3] * b[1] + a[4] * b[2] - a[2] * b[4], One),
    RDiv(a[1] * b[4] + a[4] * b[1] + a[2] * b[3] - a[3] * b[2], One)>>

\* rotation_between_quats_to_quat: conjugate(q1) / dot(q1, q1) * q2.
\* invert_qt_qt_normalized over the squared length d of the quaternion.
InvertQuat(q, d) ==
  IF d = 0 THEN <<q[1], -q[2], -q[3], -q[4]>>
  ELSE <<RDiv(q[1] * One, d), RDiv(-q[2] * One, d),
         RDiv(-q[3] * One, d), RDiv(-q[4] * One, d)>>

rotation_between_quats_to_quat(q1, q2) ==
  mul_qt_qtqt(InvertQuat(q1, RDiv(q1[1] * q1[1] + q1[2] * q1[2] + q1[3] * q1[3]
                                    + q1[4] * q1[4], One)),
              q2)

\* ---------------------------------------------------------- segment solver

\* IkStore that also takes the segment's length from the stored positions.
IkStoreLen(seg, target, current_head_position) ==
  [seg EXCEPT !.head = current_head_position,
              !.orig = VAdd(seg.orig, VSub(target, current_head_position)),
              !.len = Distance(current_head_position,
                               VAdd(seg.orig, VSub(target, current_head_position)))]

\* IkStore assigning the difference to the origin instead of adding it.
IkStoreAssign(seg, target, current_head_position) ==
  [seg EXCEPT !.head = current_head_position,
              !.orig = VSub(target, current_head_position)]

\* The body of the loop of solve_ik_chain once the new head position is
\* known: the head and the origin stored to the segment.
IkStore(seg, target, current_head_position) ==
  [seg EXCEPT !.head = current_head_position,
              !.orig = VAdd(seg.orig, VSub(target, current_head_position))]

\* IkOrient computing the new head from the initial origin of the segment,
\* as if the origins did not persist from a solve to the next.
IkOrientFromInitial(seg, target, current_orientation) ==
  IkStore([seg EXCEPT !.rot = rotation_between_vecs_to_quat(
                                 Normalize(VSub(seg.initial_head, seg.initial_orig)),
                                 current_orientation)],
          target,
          VAdd(seg.initial_orig, VMulFl(current_orientation, seg.len)))

\* The body of the loop of solve_ik_chain once the orientation to the target
\* is known: the rotation from the initial orientation, and the segment moved.
IkOrient(seg, target, current_orientation) ==
  IkStore([seg EXCEPT !.rot = rotation_between_vecs_to_quat(
                                 Normalize(VSub(seg.initial_head, seg.initial_orig)),
                                 current_orientation)],
          target,
          VAdd(seg.orig, VMulFl(current_orientation, seg.len)))

\* The body of the loop of solve_ik_chain for one segment.
IkSolveSegment(seg, target) == IkOrient(seg, target, Normalize(VSub(target, seg.orig)))

\* The loop of solve_ik_chain from segment i on, with the running target:
\* the origin of a solved segment is the target of the next one.
RECURSIVE IkSolveFrom(_, _, _)
IkSolveFrom(segments, i, target) ==
  IF i > Len(segments) THEN segments
  ELSE IkSolveFrom([segments EXCEPT ![i] = IkSolveSegment(segments[i], target)],
                   i + 1,
                   IkSolveSegment(segments[i], target).orig)

\* The anchor step of solve_ik_chain: the whole chain moved by anchor_diff.
IkMoveChain(segments, anchor_diff) ==
  [i \in 1..Len(segments) |->
     [segments[i] EXCEPT !.orig = VAdd(segments[i].orig, anchor_diff),
                         !.head = VAdd(segments[i].head, anchor_diff)]]

\* IkAnchor pinning the first segment instead of the last one.
IkAnchorFirst(segments) ==
  IkMoveChain(segments, VSub(segments[1].initial_orig, segments[1].orig))

IkAnchor(segments) ==
  IkMoveChain(segments, VSub(segments[Len(segments)].initial_orig,
                             segments[Len(segments)].orig))

\* The anchor step applied if the anchor flag is set.
IkFinish(solved, use_anchor) == IF use_anchor THEN IkAnchor(solved) ELSE solved

solve_ik_chain(segments, initial_target, use_anchor) ==
  IkFinish(IkSolveFrom(segments, 1, initial_target), use_anchor)

\* BKE_brush_curve_strength(brush, i, n) as a multiple of 1/2: the falloff
\* goes from full strength at the first segment to none at distance n.
BrushCurveHalves(i, n) == IF i = 1 THEN 2 ELSE IF i < n THEN 1 ELSE 0

\* solve_roll_chain with the roll given in units of 45 degrees (even, so that
\* half of it is a table angle).
\* The body of the loop of solve_roll_chain for the segment's initial
\* orientation and its roll.
RollSegment(seg, initial_orientation, current_roll) ==
  [seg EXCEPT !.rot = rotation_between_quats_to_quat(
                        axis_angle_normalized_to_quat(initial_orientation, current_roll),
                        axis_angle_normalized_to_quat(initial_orientation, 0))]

solve_roll_chain(segments, roll) ==
  [i \in 1..Len(segments) |->
     RollSegment(segments[i],
                 Normalize(VSub(segments[i].initial_head, segments[i].initial_orig)),
                 (roll * BrushCurveHalves(i, Len(segments))) \div 2)]

\* solve_translate_chain moving the current positions instead of the initial
\* ones.
solve_translate_chain_current(segments, delta) ==
  [i \in 1..Len(segments) |->
     [segments[i] EXCEPT !.head = VAdd(segments[i].head, delta),
                         !.orig = VAdd(segments[i].orig, delta),
                         !.rot = unit_qt]]

solve_translate_chain(segments, delta) ==
  [i \in 1..Len(segments) |->
     [segments[i] EXCEPT !.head = VAdd(segments[i].initial_head, delta),
                         !.orig = VAdd(segments[i].initial_orig, delta),
                         !.rot = unit_qt]]

\* solve_scale_chain storing a uniform scale made of the first component.
solve_scale_chain_uniform(segments, scale) ==
  [i \in 1..Len(segments) |->
     [segments[i] EXCEPT !.scale = <<scale[1], scale[1], scale[1]>>]]

solve_scale_chain(segments, scale) ==
  [i \in 1..Len(segments) |-> [segments[i] EXCEPT !.scale = scale]]

\* ------------------------------------------------------------------ scenes

\* Distance between two neighbouring vertices of a scene's mesh.
GridStep == One \div 10

\* A scene is a mesh and a stroke start on it.  The mesh is a strip of
\* ncols x nrows vertices in the XY plane, vertex (c, r) at
\* (x0 + c * GridStep, r * GridStep, 0) with index c * nrows + r + 1; fsq[k]
\* is the face set of the faces between columns k and k + 1; after column
\* cut (0: none) the strip is split in two islands; hidden is the set of
\* hidden vertices.  active is the active vertex, location the stroke's
\* initial location, radius the brush radius, symm the symmetry flags;
\* deform_target and pose_smooth_iterations are the brush's settings of these
\* names in the scene.  pbvh_type is the representation of the mesh, masked
\* the set of the vertices with a mask of 1 and half_masked of those with a
\* mask of 0.5.
Scenes ==
  << \* a line of six vertices, the stroke starting at its end
     [ncols |-> 6, nrows |-> 1, x0 |-> 0, fsq |-> <<1, 1, 2, 2, 3>>, cut |-> 0,
      hidden |-> {}, active |-> 1, location |-> <<0, 0, 0>>, radius |-> 150,
      symm |-> 0, deform_target |-> "BRUSH_DEFORM_TARGET_GEOMETRY",
      pose_smooth_iterations |-> 0,
      pbvh_type |-> "Mesh", masked |-> {2}, half_masked |-> {3}],
     \* a line across the X symmetry plane, X symmetry enabled
     [ncols |-> 6, nrows |-> 1, x0 |-> -200, fsq |-> <<1, 1, 2, 2, 3>>, cut |-> 0,
      hidden |-> {}, active |-> 4, location |-> <<110, 10, 0>>, radius |-> 120,
      symm |-> 1, deform_target |-> "BRUSH_DEFORM_TARGET_GEOMETRY",
      pose_smooth_iterations |-> 1,
      pbvh_type |-> "Grids", masked |-> {5}, half_masked |-> {3}],
     \* a ladder of two rows, the stroke starting in the middle face set
     [ncols |-> 7, nrows |-> 2, x0 |-> 0, fsq |-> <<1, 1, 2, 2, 3, 3>>, cut |-> 0,
      hidden |-> {}, active |-> 7, location |-> <<300, 20, 0>>, radius |-> 90,
      symm |-> 0, deform_target |-> "BRUSH_DEFORM_TARGET_CLOTH_SIM",
      pose_smooth_iterations |-> 1,
      pbvh_type |-> "Mesh", masked |-> {8}, half_masked |-> {5}],
     \* a ladder in two islands with one hidden vertex
     [ncols |-> 5, nrows |-> 2, x0 |-> 0, fsq |-> <<1, 1, 2, 2>>, cut |-> 3,
      hidden |-> {10}, active |-> 1, location |-> <<0, 0, 0>>, radius |-> 110,
      symm |-> 0, deform_target |-> "BRUSH_DEFORM_TARGET_GEOMETRY",
      pose_smooth_iterations |-> 2,
      pbvh_type |-> "BMesh", masked |-> {2}, half_masked |-> {3}],
     \* a line of five vertices and a radius of two steps: the centroid of a
     \* ring is at the maximum length exactly
     [ncols |-> 5, nrows |-> 1, x0 |-> 0, fsq |-> <<1, 2, 2, 3>>, cut |-> 0,
      hidden |-> {}, active |-> 1, location |-> <<0, 0, 0>>, radius |-> 200,
      symm |-> 0, deform_target |-> "BRUSH_DEFORM_TARGET_CLOTH_SIM",
      pose_smooth_iterations |-> 1,
      pbvh_type |-> "BMesh", masked |-> {}, half_masked |-> {2}],
     \* a line in two islands, the second with face sets of the first
     [ncols |-> 8, nrows |-> 1, x0 |-> 0, fsq |-> <<1, 2, 2, 3, 3, 2, 1>>, cut |-> 5,
      hidden |-> {}, active |-> 3, location |-> <<210, 0, 0>>, radius |-> 150,
      symm |-> 0, deform_target |-> "BRUSH_DEFORM_TARGET_CLOTH_SIM",
      pose_smooth_iterations |-> 0,
      pbvh_type |-> "Grids", masked |-> {4}, half_masked |-> {2}],
     \* a line of ten vertices and a radius of six steps: the offset origin
     \* is more than a step beyond the factors that reach it
     [ncols |-> 10, nrows |-> 1, x0 |-> 0, fsq |-> <<1, 1, 1, 1, 1, 2, 2, 2, 3>>,
      cut |-> 0, hidden |-> {}, active |-> 1, location |-> <<0, 0, 0>>, radius |-> 600,
      symm |-> 0, deform_target |-> "BRUSH_DEFORM_TARGET_GEOMETRY",
      pose_smooth_iterations |-> 0,
      pbvh_type |-> "Mesh", masked |-> {3}, half_masked |-> {}] >>

SceneIds == 1..Len(Scenes)

totvert(sc) == sc.ncols * sc.nrows

Verts(sc) == 1..totvert(sc)

Col(sc, v) == (v - 1) \div sc.nrows

Row(sc, v) == (v - 1) % sc.nrows

VertAt(sc, c, r) == c * sc.nrows + r + 1

\* SCULPT_vertex_co_get
vertex_co_get(sc, v) == <<sc.x0 + Col(sc, v) * GridStep, Row(sc, v) * GridStep, 0>>

\* hide::vert_visible_get
vert_visible_get(sc, v) == v \notin sc.hidden

\* The topological neighbours of a vertex, in iteration order.
GridNeighbors(sc, c, r) ==
  (IF c > 0 /\ sc.cut # c THEN <<VertAt(sc, c - 1, r)>> ELSE << >>)
    \o (IF c < sc.ncols - 1 /\ sc.cut # c + 1 THEN <<VertAt(sc, c + 1, r)>> ELSE << >>)
    \o (IF r > 0 THEN <<VertAt(sc, c, r - 1)>> ELSE << >>)
    \o (IF r < sc.nrows - 1 THEN <<VertAt(sc, c, r + 1)>> ELSE << >>)

TopoNeighbors(sc, v) == GridNeighbors(sc, Col(sc, v), Row(sc, v))

\* FAKE_NEIGHBOR_NONE, for vertex indices that start at 1.
FAKE_NEIGHBOR_NONE == 0 - 1

\* SCULPT_fake_neighbors_ensure: the nearest vertex of the other island, for
\* the vertices at the cut.
fake_neighbor_index(sc) ==
  [v \in Verts(sc) |->
     IF sc.cut = 0 THEN FAKE_NEIGHBOR_NONE
     ELSE IF Col(sc, v) = sc.cut - 1 THEN VertAt(sc, sc.cut, Row(sc, v))
     ELSE IF Col(sc, v) = sc.cut THEN VertAt(sc, sc.cut - 1, Row(sc, v))
     ELSE FAKE_NEIGHBOR_NONE]

\* SCULPT_VERTEX_NEIGHBORS_ITER: the topological neighbours, then the fake
\* neighbour when fake neighbours are enabled.
vertex_neighbors(sc, fake, v) ==
  TopoNeighbors(sc, v)
    \o (IF fake.use_fake_neighbors /\ fake.fake_neighbor_index # << >>
           /\ fake.fake_neighbor_index[v] # FAKE_NEIGHBOR_NONE
        THEN <<fake.fake_neighbor_index[v]>> ELSE << >>)

\* The face sets of the faces around a vertex.
VertFaceSets(sc, v) ==
  (IF Col(sc, v) > 0 /\ sc.cut # Col(sc, v) THEN {sc.fsq[Col(sc, v)]} ELSE {})
    \cup (IF Col(sc, v) < sc.ncols - 1 /\ sc.cut # Col(sc, v) + 1
          THEN {sc.fsq[Col(sc, v) + 1]} ELSE {})

SetMax(S) == CHOOSE x \in S : \A y \in S : y <= x

\* face_set::vert_face_set_get: the greatest face set around the vertex.
vert_face_set_get(sc, v) == SetMax(VertFaceSets(sc, v))

\* face_set::vert_has_face_set
vert_has_face_set(sc, v, face_set) == face_set \in VertFaceSets(sc, v)

\* face_set::vert_has_unique_face_set
vert_has_unique_face_set(sc, v) == Cardinality(VertFaceSets(sc, v)) = 1

\* SCULPT_FACE_SET_NONE
SCULPT_FACE_SET_NONE == 0

\* ---------------------------------------------------------------- symmetry

\* Whether bit i (0, 1, 2) of the flags is set.
Bit(flags, i) == (flags \div (2 ^ i)) % 2 = 1

\* SCULPT_is_symmetry_iteration_valid
is_symmetry_iteration_valid(i, symm) ==
  \/ i = 0
  \/ /\ \E b \in 0..2 : Bit(i, b) /\ Bit(symm, b)
     /\ (symm # 5 \/ i # 3)
     /\ (symm # 6 \/ i \notin {3, 5})

\* symmetry_flip
symmetry_flip(v, i) ==
  <<IF Bit(i, 0) THEN -v[1] ELSE v[1],
    IF Bit(i, 1) THEN -v[2] ELSE v[2],
    IF Bit(i, 2) THEN -v[3] ELSE v[3]>>

\* SCULPT_check_vertex_pivot_symmetry: the vertex is on the pivot's side of
\* every enabled symmetry plane.
check_vertex_pivot_symmetry(vco, pco, symm) ==
  \A i \in 0..2 :
    Bit(symm, i) =>
      /\ ~(pco[i + 1] = 0 /\ vco[i + 1] > 0)
      /\ ~(vco[i + 1] * pco[i + 1] < 0)

\* vert_inside_brush_radius
vert_inside_brush_radius(vertex, br_co, radius, symm) ==
  \E i \in 0..symm :
    /\ is_symmetry_iteration_valid(i, symm)
    /\ Distance(symmetry_flip(br_co, i), vertex) < radius

\* -------------------------------------------------------------- flood fill

\* No vertex (a null PBVHVertRef).
NoVert == 0

\* The visible vertices within the distance of the location.
NearVerts(sc, location, max_distance_sq) ==
  {v \in Verts(sc) : /\ vert_visible_get(sc, v)
                     /\ LenSquared(vertex_co_get(sc, v), location) <= max_distance_sq}

\* The vertex of the set nearest to the location, the lowest index among
\* equally near ones; NoVert if the set is empty.
NearestOf(sc, location, near) ==
  IF near = {} THEN NoVert
  ELSE CHOOSE v \in near :
         \A w \in near :
           \/ LenSquared(vertex_co_get(sc, v), location)
                < LenSquared(vertex_co_get(sc, w), location)
           \/ /\ LenSquared(vertex_co_get(sc, v), location)
                   = LenSquared(vertex_co_get(sc, w), location)
              /\ v <= w

\* nearest_vert_calc
nearest_vert_calc(sc, location, max_distance_sq) ==
  NearestOf(sc, location, NearVerts(sc, location, max_distance_sq))

\* FLT_MAX as a radius: greater than any distance in a scene.
FLT_MAX == 30 * One

\* flood_fill::add_initial_with_symmetry: the queue holding the vertex and,
\* for each valid symmetry iteration, the vertex nearest to its mirror image.
\* The vertex add_initial_with_symmetry takes for symmetry iteration i.
SymmetryVertex(sc, vertex, radius, i) ==
  IF i = 0 THEN vertex
  ELSE IF radius > 0
       THEN nearest_vert_calc(sc, symmetry_flip(vertex_co_get(sc, vertex), i),
                              radius * radius)
       ELSE NoVert

RECURSIVE InitialWithSymmetry(_, _, _, _)
InitialWithSymmetry(sc, vertex, radius, i) ==
  IF i > sc.symm THEN << >>
  ELSE (IF /\ is_symmetry_iteration_valid(i, sc.symm)
           /\ SymmetryVertex(sc, vertex, radius, i) # NoVert
        THEN <<SymmetryVertex(sc, vertex, radius, i)>> ELSE << >>)
       \o InitialWithSymmetry(sc, vertex, radius, i + 1)

add_initial_with_symmetry(sc, vertex, radius) == InitialWithSymmetry(sc, vertex, radius, 0)

\* topology_floodfill up to the brush radius test: the factor of the vertex
\* is set and the fallback origin moves to the vertex if it is farther from
\* the initial location.
TopologyMark(ctx, st, to_v, co) ==
  [st EXCEPT
     !.pose_factor = IF @ # << >> THEN [@ EXCEPT ![to_v] = One] ELSE @,
     !.fallback_floodfill_origin =
        IF LenSquared(ctx.pose_initial_co, @) < LenSquared(ctx.pose_initial_co, co)
        THEN co ELSE @]

\* topology_floodfill from the brush radius test on.
TopologyBoundary(sc, ctx, st, co, is_duplicate) ==
  IF vert_inside_brush_radius(co, ctx.pose_initial_co, ctx.radius, sc.symm)
  THEN [st |-> st, cont |-> TRUE]
  ELSE IF check_vertex_pivot_symmetry(co, ctx.pose_initial_co, sc.symm) /\ ~is_duplicate
       THEN [st |-> [st EXCEPT !.pose_origin = VAdd(@, co), !.tot_co = @ + 1],
             cont |-> FALSE]
       ELSE [st |-> st, cont |-> FALSE]

topology_floodfill(sc, ctx, st, to_v, is_duplicate) ==
  TopologyBoundary(sc, ctx, TopologyMark(ctx, st, to_v, vertex_co_get(sc, to_v)),
                   vertex_co_get(sc, to_v), is_duplicate)

\* The first branch of face_sets_floodfill, taken while there is no current
\* face set: expand by topology until a vertex is outside the brush radius.
FaceSetsFirst(sc, st, to_v, inside, symmetry_check) ==
  [st |-> [st EXCEPT
             !.pose_factor[to_v] = One,
             !.is_weighted = @ \cup {to_v},
             !.visited_face_sets = IF inside \/ symmetry_check
                                   THEN @ \cup {vert_face_set_get(sc, to_v)} ELSE @,
             !.current_face_set = IF ~inside /\ symmetry_check
                                  THEN vert_face_set_get(sc, to_v) ELSE @],
   cont |-> TRUE]

\* Whether face_sets_floodfill takes the vertex as one of the segment.
FaceSetsVertexValid(sc, ctx, st, to_v) ==
  IF ctx.is_first_iteration
  THEN \E f \in st.visited_face_sets : vert_has_face_set(sc, to_v, f)
  ELSE vert_has_face_set(sc, to_v, st.current_face_set)

\* face_sets_floodfill: the weight of a valid vertex and the fallback origin.
\* taken records, for the properties, the vertices that got this far.
FaceSetsWeigh(st, to_v, co, symmetry_check) ==
  [st EXCEPT
     !.taken = @ \cup {to_v},
     !.pose_factor[to_v] = IF to_v \notin st.is_weighted THEN One ELSE @,
     !.is_weighted = @ \cup {to_v},
     !.fallback_origin = IF symmetry_check THEN VAdd(@, co) ELSE @,
     !.fallback_count = IF symmetry_check THEN @ + 1 ELSE @]

\* The neighbour loop of face_sets_floodfill from neighbour k on: the next
\* face set found so far and whether the vertex counts as boundary.
RECURSIVE FaceSetsNeighborLoop(_, _, _, _, _)
FaceSetsNeighborLoop(sc, nbrs, k, st, count_as_boundary) ==
  IF k > Len(nbrs) THEN [st |-> st, count_as_boundary |-> count_as_boundary]
  ELSE IF /\ vert_has_unique_face_set(sc, nbrs[k])
          /\ vert_face_set_get(sc, nbrs[k]) \notin st.visited_face_sets
       THEN FaceSetsNeighborLoop(
              sc, nbrs, k + 1,
              IF ~st.next_face_set_found
              THEN [st EXCEPT !.next_face_set = vert_face_set_get(sc, nbrs[k]),
                              !.next_vertex = nbrs[k],
                              !.next_face_set_found = TRUE]
              ELSE st,
              TRUE)
       ELSE FaceSetsNeighborLoop(sc, nbrs, k + 1, st, count_as_boundary)

\* The origin accumulation of face_sets_floodfill after the neighbour loop.
FaceSetsOrigin(r, co, visit_next) ==
  [st |-> IF r.count_as_boundary
          THEN [r.st EXCEPT !.pose_origin = VAdd(@, co), !.tot_co = @ + 1]
          ELSE r.st,
   cont |-> visit_next]

\* face_sets_floodfill for a valid vertex, st having its weight.
FaceSetsBoundary(sc, ctx, st, to_v, co, symmetry_check, visit_next) ==
  IF ~symmetry_check \/ vert_has_unique_face_set(sc, to_v)
  THEN [st |-> st, cont |-> visit_next]
  ELSE FaceSetsOrigin(
         FaceSetsNeighborLoop(sc, vertex_neighbors(sc, ctx.fake, to_v), 1, st, FALSE),
         co, visit_next)

\* face_sets_floodfill once the position and the symmetry check are known.
FaceSetsVisit(sc, ctx, st, to_v, co, symmetry_check) ==
  IF st.current_face_set = SCULPT_FACE_SET_NONE
  THEN FaceSetsFirst(sc, st, to_v,
                     vert_inside_brush_radius(co, ctx.pose_initial_co, ctx.radius, sc.symm),
                     symmetry_check)
  ELSE IF ~FaceSetsVertexValid(sc, ctx, st, to_v)
       THEN [st |-> st, cont |-> FALSE]
       ELSE FaceSetsBoundary(sc, ctx, FaceSetsWeigh(st, to_v, co, symmetry_check),
                             to_v, co, symmetry_check, to_v \notin st.is_weighted)

face_sets_floodfill(sc, ctx, st, to_v, is_duplicate) ==
  FaceSetsVisit(sc, ctx, st, to_v, vertex_co_get(sc, to_v),
                check_vertex_pivot_symmetry(vertex_co_get(sc, to_v), ctx.pose_initial_co,
                                            sc.symm)
                  /\ ~is_duplicate)

\* The condition under which face_sets_fk_find_masked_floodfill records the
\* face set of to_v.
FkFound(sc, st, from_v, to_v) ==
  /\ vert_face_set_get(sc, to_v) \notin st.visited_face_sets
  /\ vert_has_unique_face_set(sc, to_v)
  /\ ~vert_has_unique_face_set(sc, from_v)
  /\ vert_has_face_set(sc, from_v, vert_face_set_get(sc, to_v))

\* FkRecord keeping the masked face set on an equal iteration.
FkRecordFirst(sc, ctx, st, from_v, to_v, it, to_face_set) ==
  [st |-> IF ~FkFound(sc, st, from_v, to_v)
          THEN [st EXCEPT !.floodfill_it[to_v] = it, !.reached = @ \cup {to_v}]
          ELSE [st EXCEPT
                  !.floodfill_it[to_v] = it,
                  !.reached = @ \cup {to_v},
                  !.visited_face_sets = @ \cup {to_face_set},
                  !.found = Append(@, <<to_face_set, it>>),
                  !.masked_face_set = IF it > st.masked_face_set_it
                                      THEN to_face_set ELSE @,
                  !.masked_face_set_it = IF it > @ THEN it ELSE @,
                  !.target_face_set = IF @ = SCULPT_FACE_SET_NONE
                                      THEN to_face_set ELSE @],
   cont |-> vert_has_face_set(sc, to_v, ctx.initial_face_set)]

\* face_sets_fk_find_masked_floodfill once the iteration of to_v is known.
\* found records, for the properties, the face sets in the order they are
\* discovered, each with the iteration it is discovered at, and reached the
\* vertices the traversal has been at.
FkRecord(sc, ctx, st, from_v, to_v, it, to_face_set) ==
  [st |-> IF ~FkFound(sc, st, from_v, to_v)
          THEN [st EXCEPT !.floodfill_it[to_v] = it, !.reached = @ \cup {to_v}]
          ELSE [st EXCEPT
                  !.floodfill_it[to_v] = it,
                  !.reached = @ \cup {to_v},
                  !.visited_face_sets = @ \cup {to_face_set},
                  !.found = Append(@, <<to_face_set, it>>),
                  !.masked_face_set = IF it >= st.masked_face_set_it
                                      THEN to_face_set ELSE @,
                  !.masked_face_set_it = IF it >= @ THEN it ELSE @,
                  !.target_face_set = IF @ = SCULPT_FACE_SET_NONE
                                      THEN to_face_set ELSE @],
   cont |-> vert_has_face_set(sc, to_v, ctx.initial_face_set)]

face_sets_fk_find_masked_floodfill(sc, ctx, st, from_v, to_v, is_duplicate) ==
  FkRecord(sc, ctx, st, from_v, to_v,
           IF ~is_duplicate THEN st.floodfill_it[from_v] + 1 ELSE st.floodfill_it[from_v],
           vert_face_set_get(sc, to_v))

\* pose_face_sets_fk_set_weights_floodfill
pose_face_sets_fk_set_weights_floodfill(sc, ctx, st, to_v) ==
  [st |-> [st EXCEPT !.fk_weights[to_v] = One],
   cont |-> ~vert_has_face_set(sc, to_v, ctx.masked_face_set)]

\* The callback a flood fill is executed with.  The neighbours of a mesh
\* vertex are never duplicates.
Visit(kind, sc, ctx, st, from_v, to_v) ==
  CASE kind = "topology" -> topology_floodfill(sc, ctx, st, to_v, FALSE)
    [] kind = "face_sets" -> face_sets_floodfill(sc, ctx, st, to_v, FALSE)
    [] kind = "fk_find_masked" ->
         face_sets_fk_find_masked_floodfill(sc, ctx, st, from_v, to_v, FALSE)
    [] kind = "fk_set_weights" -> pose_face_sets_fk_set_weights_floodfill(sc, ctx, st, to_v)

\* flood_fill::execute for one neighbour after the callback returned r: the
\* neighbour is marked visited, and queued when the callback returned true.
FloodVisited(fs, to_v, r) ==
  [queue |-> IF r.cont THEN Append(fs.queue, to_v) ELSE fs.queue,
   visited |-> fs.visited \cup {to_v},
   st |-> r.st]

\* flood_fill::execute, the loop over the neighbours of from_v: a neighbour
\* that is unvisited and visible is handed to the callback.
RECURSIVE FloodNeighbors(_, _, _, _, _, _, _)
FloodNeighbors(kind, sc, ctx, from_v, nbrs, k, fs) ==
  IF k > Len(nbrs) THEN fs
  ELSE FloodNeighbors(
         kind, sc, ctx, from_v, nbrs, k + 1,
         IF nbrs[k] \in fs.visited \/ ~vert_visible_get(sc, nbrs[k])
         THEN fs
         ELSE FloodVisited(fs, nbrs[k], Visit(kind, sc, ctx, fs.st, from_v, nbrs[k])))

\* flood_fill::execute: breadth first from the queued vertices.
RECURSIVE FloodExecute(_, _, _, _)
FloodExecute(kind, sc, ctx, fs) ==
  IF fs.queue = << >> THEN fs.st
  ELSE FloodExecute(kind, sc, ctx,
                    FloodNeighbors(kind, sc, ctx, Head(fs.queue),
                                   vertex_neighbors(sc, ctx.fake, Head(fs.queue)), 1,
                                   [fs EXCEPT !.queue = Tail(@)]))

\* flood_fill::init_fill and execute: nothing is visited at the start, the
\* initial vertices included.
flood_fill_execute(kind, sc, ctx, initial, st) ==
  FloodExecute(kind, sc, ctx, [queue |-> initial, visited |-> {}, st |-> st])

\* ------------------------------------------------------------ factor grower

\* The neighbours grow_factors_mesh reads for a vertex: the visible
\* topological neighbours, and the fake neighbour when the fake neighbour
\* array is not empty.
GrowNeighbors(sc, fake_index, v) ==
  {TopoNeighbors(sc, v)[k] : k \in {j \in 1..Len(TopoNeighbors(sc, v)) :
                                      vert_visible_get(sc, TopoNeighbors(sc, v)[j])}}
    \cup (IF fake_index # << >> /\ fake_index[v] # FAKE_NEIGHBOR_NONE
          THEN {fake_index[v]} ELSE {})

\* NeighborMax without the fake neighbour.
NeighborMaxTopo(sc, fake_index, prev_mask, v) ==
  SetMax({prev_mask[n] : n \in GrowNeighbors(sc, << >>, v)} \cup {0})

\* The greatest prev_mask value among the neighbours of v (0.0f if none).
NeighborMax(sc, fake_index, prev_mask, v) ==
  SetMax({prev_mask[n] : n \in GrowNeighbors(sc, fake_index, v)} \cup {0})

\* The vertices one ring raises: the visible vertices with a neighbour above
\* their own previous value.
GrownVerts(sc, fake_index, prev_mask) ==
  {v \in Verts(sc) : /\ vert_visible_get(sc, v)
                     /\ NeighborMax(sc, fake_index, prev_mask, v) > prev_mask[v]}

\* grow_factors_mesh over all nodes: the factors after one ring.
grow_factors_mesh(sc, fake_index, prev_mask, pose_factor) ==
  [v \in Verts(sc) |->
     IF v \in GrownVerts(sc, fake_index, prev_mask)
     THEN NeighborMax(sc, fake_index, prev_mask, v)
     ELSE pose_factor[v]]

\* The sum of the positions of the vertices of S from vertex v on.
RECURSIVE SumPositions(_, _, _)
SumPositions(sc, S, v) ==
  IF v > totvert(sc) THEN Zero3
  ELSE CHOOSE sum \in {VAdd(IF v \in S THEN vertex_co_get(sc, v) ELSE Zero3, rest) :
                         rest \in {SumPositions(sc, S, v + 1)}} : TRUE

\* The sum and the count of the positions of a set of vertices.
Accumulate(sc, counted) ==
  [pos_avg |-> SumPositions(sc, counted, 1), pos_count |-> Cardinality(counted)]

\* The accumulator of PoseGrowFactorData after one ring, joined over all
\* nodes: the sum and the count of the grown vertices on the target's side of
\* the symmetry planes.
GrowFactorData(sc, fake_index, pose_target, prev_mask) ==
  CHOOSE gftd \in
    {Accumulate(sc, counted) :
       counted \in {{v \in GrownVerts(sc, fake_index, prev_mask) :
                       check_vertex_pivot_symmetry(vertex_co_get(sc, v), pose_target,
                                                   sc.symm)}}} : TRUE

\* The number of leaf nodes of the mesh's tree.
NumNodes == 3

\* The number of threads parallel_reduce runs its ranges on.
NumWorkers == 2

\* The node that owns a vertex.
NodeOf(sc, v) == (v % NumNodes) + 1

\* PoseGrowFactorData::join
join(a, b) ==
  [pos_avg |-> VAdd(a.pos_avg, b.pos_avg), pos_count |-> a.pos_count + b.pos_count]

\* grow_factors_mesh reading the factors written in the same ring instead of
\* the snapshot.
grow_factors_node_live(sc, fake_index, prev_mask, pose_factor, node) ==
  [v \in Verts(sc) |->
     IF NodeOf(sc, v) = node /\ v \in GrownVerts(sc, fake_index, pose_factor)
     THEN NeighborMax(sc, fake_index, pose_factor, v)
     ELSE pose_factor[v]]

\* grow_factors_mesh for one node: the factors after the node's vertices were
\* grown from the snapshot prev_mask.
grow_factors_node(sc, fake_index, prev_mask, pose_factor, node) ==
  [v \in Verts(sc) |->
     IF NodeOf(sc, v) = node /\ v \in GrownVerts(sc, fake_index, prev_mask)
     THEN NeighborMax(sc, fake_index, prev_mask, v)
     ELSE pose_factor[v]]

\* What grow_factors_mesh adds to the accumulator it is handed for one node.
NodeFactorData(sc, fake_index, pose_target, prev_mask, node) ==
  Accumulate(sc, {v \in GrownVerts(sc, fake_index, prev_mask) :
                    /\ NodeOf(sc, v) = node
                    /\ check_vertex_pivot_symmetry(vertex_co_get(sc, v), pose_target,
                                                   sc.symm)})

\* The accumulators of the threads joined, from thread w on.
RECURSIVE JoinFrom(_, _)
JoinFrom(acc, w) ==
  IF w > Len(acc) THEN [pos_avg |-> Zero3, pos_count |-> 0]
  ELSE join(acc[w], JoinFrom(acc, w + 1))

\* No value: a null float pointer argument, or nothing written through one.
Null == << >>

\* No segment: r_pose_origin is a null pointer.
NoSegment == 0

\* The average position of the ring (gftd.pos_avg after the division).
GrowCentroid(gftd) ==
  IF gftd.pos_count # 0 THEN VDivInt(gftd.pos_avg, gftd.pos_count) ELSE Zero3

\* What the properties record of an iteration of grow_pose_factor: the
\* number of the ring, its average position and count and those of the ring
\* before it, the factors on entry of the iteration, and the least distance
\* the rings before it were tested with.
GrowGhost(g, prev_mask, gftd) ==
  [g EXCEPT !.ring = @ + 1, !.prev_avg = g.avg, !.prev_count = g.count,
            !.avg = GrowCentroid(gftd), !.count = gftd.pos_count,
            !.entry_mask = prev_mask,
            !.closest = IF g.ring = 0 THEN FLT_MAX
                        ELSE IF g.len < @ THEN g.len ELSE @]

\* The distance test of grow_pose_factor: below the limit the ring is kept
\* and the loop goes on, otherwise the loop stops, the factors are rolled
\* back and origin is written through r_pose_origin.
\* GrowTest keeping the grown factors when the growth stops.
GrowTestKeep(g, len, limit, grown, prev_mask, origin) ==
  IF len < limit
  THEN [g |-> [g EXCEPT !.prev_len = len, !.len = len], pose_factor |-> grown,
        origin |-> Null]
  ELSE [g |-> [g EXCEPT !.grow_next_iteration = FALSE, !.len = len],
        pose_factor |-> grown, origin |-> origin]

\* GrowTest clearing the factors when the growth stops.
GrowTestClear(g, len, limit, grown, prev_mask, origin) ==
  IF len < limit
  THEN [g |-> [g EXCEPT !.prev_len = len, !.len = len],
        pose_factor |-> grown, origin |-> Null]
  ELSE [g |-> [g EXCEPT !.grow_next_iteration = FALSE, !.len = len],
        pose_factor |-> [v \in DOMAIN prev_mask |-> 0], origin |-> origin]

GrowTest(g, len, limit, grown, prev_mask, origin) ==
  IF len < limit
  THEN [g |-> [g EXCEPT !.prev_len = len, !.len = len],
        pose_factor |-> grown, origin |-> Null]
  ELSE [g |-> [g EXCEPT !.grow_next_iteration = FALSE, !.len = len],
        pose_factor |-> prev_mask, origin |-> origin]

\* The body of the loop of grow_pose_factor after the ring was computed.
\* GrowDecide reporting the accumulated average of an empty ring instead of
\* the target.
GrowDecideAverage(g, avg, count, grown, prev_mask) ==
  IF count # 0
  THEN IF g.pose_origin # Null
       THEN GrowTest(g, Distance(avg, g.pose_origin), g.prev_len, grown, prev_mask, Null)
       ELSE GrowTest(g, Distance(avg, g.pose_target), g.max_len, grown, prev_mask,
                     IF g.r_pose_origin # NoSegment THEN avg ELSE Null)
  ELSE [g |-> [g EXCEPT !.grow_next_iteration = FALSE], pose_factor |-> grown,
        origin |-> IF g.r_pose_origin # NoSegment THEN avg ELSE Null]

\* GrowDecide going on after a ring that raised no vertex.
GrowDecideGoOn(g, avg, count, grown, prev_mask) ==
  IF count # 0
  THEN IF g.pose_origin # Null
       THEN GrowTest(g, Distance(avg, g.pose_origin), g.prev_len, grown, prev_mask, Null)
       ELSE GrowTest(g, Distance(avg, g.pose_target), g.max_len, grown, prev_mask,
                     IF g.r_pose_origin # NoSegment THEN avg ELSE Null)
  ELSE [g |-> g, pose_factor |-> grown, origin |-> Null]

\* GrowDecide testing against the maximum length in both modes.
GrowDecideLength(g, avg, count, grown, prev_mask) ==
  IF count # 0
  THEN IF g.pose_origin # Null
       THEN GrowTest(g, Distance(avg, g.pose_origin), g.max_len, grown, prev_mask, Null)
       ELSE GrowTest(g, Distance(avg, g.pose_target), g.max_len, grown, prev_mask,
                     IF g.r_pose_origin # NoSegment THEN avg ELSE Null)
  ELSE [g |-> [g EXCEPT !.grow_next_iteration = FALSE],
        pose_factor |-> grown,
        origin |-> IF g.r_pose_origin # NoSegment THEN g.pose_target ELSE Null]

GrowDecide(g, avg, count, grown, prev_mask) ==
  IF count # 0
  THEN IF g.pose_origin # Null
       THEN GrowTest(g, Distance(avg, g.pose_origin), g.prev_len, grown, prev_mask, Null)
       ELSE GrowTest(g, Distance(avg, g.pose_target), g.max_len, grown, prev_mask,
                     IF g.r_pose_origin # NoSegment THEN avg ELSE Null)
  ELSE [g |-> [g EXCEPT !.grow_next_iteration = FALSE],
        pose_factor |-> grown,
        origin |-> IF g.r_pose_origin # NoSegment THEN g.pose_target ELSE Null]

\* One iteration of the loop given the accumulator of the ring.
GrowRing(sc, fake_index, g, prev_mask, gftd) ==
  CHOOSE r \in
    {GrowDecide(ghost, avg, gftd.pos_count, grown, prev_mask) :
       ghost \in {GrowGhost(g, prev_mask, gftd)},
       avg \in {GrowCentroid(gftd)},
       grown \in {grow_factors_mesh(sc, fake_index, prev_mask, prev_mask)}} : TRUE

\* One iteration of the while loop of grow_pose_factor.  g holds the
\* arguments and locals of the call, pose_factor the factors it grows.  The
\* result has the locals and factors after the iteration and, in origin, the
\* value written through r_pose_origin (Null if nothing was written).
GrowIteration(sc, fake_index, g, pose_factor) ==
  CHOOSE r \in
    {GrowRing(sc, fake_index, g, pose_factor, gftd) :
       gftd \in {GrowFactorData(sc, fake_index, g.pose_target, pose_factor)}} : TRUE

\* The arguments and locals of a call of grow_pose_factor on entry.
\* r_pose_origin is NoSegment or the index of the segment whose orig it points
\* to; ret is where the caller continues.
GrowEntry(pose_origin, pose_target, max_len, r_pose_origin, ret) ==
  [pose_origin |-> pose_origin, pose_target |-> pose_target, max_len |-> max_len,
   r_pose_origin |-> r_pose_origin, grow_next_iteration |-> TRUE,
   prev_len |-> FLT_MAX, ret |-> ret,
   ring |-> 0, avg |-> Zero3, count |-> 0, prev_avg |-> Zero3, prev_count |-> 0,
   len |-> 0, entry_mask |-> << >>, closest |-> FLT_MAX]

\* ------------------------------------------------------------ chain builder

\* ik_chain_new: a segment with empty weights.  Nothing else of a segment is
\* initialized: rot is the value handed in, the other fields are modelled as
\* zero until ik_chain_origin_heads_init writes them.
NewSegment(n, rot) ==
  [orig |-> Zero3, head |-> Zero3, initial_orig |-> Zero3, initial_head |-> Zero3,
   len |-> 0, scale |-> Zero3, rot |-> rot, weights |-> [v \in 1..n |-> 0],
   trans_mat |-> << >>, pivot_mat |-> << >>, pivot_mat_inv |-> << >>]

ik_chain_new(totsegments, n, rot) ==
  [segments |-> [i \in 1..totsegments |-> NewSegment(n, rot)],
   grab_delta_offset |-> Zero3]

\* The values an uninitialized rot is modelled with.
UninitRot == {unit_qt, <<0, 0, 0, 0>>}

\* The body of the loop of ik_chain_origin_heads_init for a segment and its
\* head.
\* OriginHead measuring the length before the head is stored.
OriginHeadStale(seg, head) ==
  [seg EXCEPT !.initial_orig = seg.orig,
              !.head = head, !.initial_head = head,
              !.len = Distance(seg.head, seg.orig),
              !.scale = <<One, One, One>>]

OriginHead(seg, head) ==
  [seg EXCEPT !.initial_orig = seg.orig,
              !.head = head, !.initial_head = head,
              !.len = Distance(head, seg.orig),
              !.scale = <<One, One, One>>]

ik_chain_origin_heads_init(segments, initial_location) ==
  [i \in 1..Len(segments) |->
     OriginHead(segments[i], IF i = 1 THEN initial_location ELSE segments[i - 1].orig)]

\* brush_num_effective_segments without the clamp of the scaling deform types.
brush_num_effective_segments_configured(b) == b.pose_ik_segments

\* brush_num_effective_segments
brush_num_effective_segments(b) ==
  IF b.pose_deform_type \in {"BRUSH_POSE_DEFORM_SCALE_TRASLATE",
                             "BRUSH_POSE_DEFORM_SQUASH_STRETCH"}
  THEN 1
  ELSE b.pose_ik_segments

\* The centroid of an accumulator, the fallback if it counted nothing.
CentroidOr(acc, count, fallback) == IF count > 0 THEN VDivInt(acc, count) ELSE fallback

\* calc_pose_data, the offset of the pose origin along the direction from
\* the initial location.
OffsetOrigin(pose_origin, initial_location, radius, pose_offset) ==
  VAdd(pose_origin,
       VMulFl(VMulFl(Normalize(VSub(pose_origin, initial_location)), radius), pose_offset))

\* calc_pose_data after the flood fill that ended with st.
PoseData(st, initial_location, radius, pose_offset) ==
  [r_pose_origin |->
     OffsetOrigin(CentroidOr(st.pose_origin, st.tot_co, st.fallback_floodfill_origin),
                  initial_location, radius, pose_offset),
   r_pose_factor |-> st.pose_factor]

\* calc_pose_data up to the place where it grows the factors: the flood fill
\* from the active vertex, the pose origin and its offset.
calc_pose_data(sc, fake, initial_location, radius, pose_offset, pose_factor) ==
  PoseData(
    flood_fill_execute(
      "topology", sc,
      [pose_initial_co |-> initial_location, radius |-> radius, fake |-> fake],
      add_initial_with_symmetry(sc, sc.active, IF pose_factor # << >> THEN radius ELSE 0),
      [pose_factor |-> pose_factor, fallback_floodfill_origin |-> initial_location,
       pose_origin |-> Zero3, tot_co |-> 0]),
    initial_location, radius, pose_offset)

\* The sum of the values of f over the vertices of S from vertex v on.
RECURSIVE SumOver(_, _, _, _)
SumOver(sc, f, S, v) ==
  IF v > totvert(sc) THEN 0
  ELSE (IF v \in S THEN f[v] ELSE 0) + SumOver(sc, f, S, v + 1)

\* The average of the values of the vertices of nb, the own value if nb is
\* empty.
NeighborAverage(sc, data, v, nb) ==
  IF nb = {} THEN data[v] ELSE RDiv(SumOver(sc, data, nb, 1), Cardinality(nb))

\* smooth::blur_geometry_data_array: each iteration replaces a value by the
\* average of the values of the vertex's neighbours.
RECURSIVE blur_geometry_data_array(_, _, _)
blur_geometry_data_array(sc, iterations, data) ==
  IF iterations = 0 THEN data
  ELSE blur_geometry_data_array(
         sc, iterations - 1,
         [v \in Verts(sc) |->
            NeighborAverage(sc, data, v,
                            {TopoNeighbors(sc, v)[k] : k \in 1..Len(TopoNeighbors(sc, v))})])

\* ------------------------------------------------------------------- state

VARIABLES
  scene,           \* index in Scenes of the scene of this stroke
  brush,           \* the brush settings
  pc,              \* where the stroke is
  fake_neighbors,  \* ss.fake_neighbors
  chain,           \* ss.cache->pose_ik_chain
  build,           \* the locals of the running chain construction
  grow,            \* the arguments and locals of the running grow_pose_factor
  frames,          \* number of do_pose_brush calls so far
  last,            \* the inputs of the last do_pose_brush call
  mesh,            \* the vertex positions and the cloth's deformation_pos
  par,             \* the running parallel_reduce of a ring of grow_pose_factor
  mirror_symmetry_pass  \* ss.cache->mirror_symmetry_pass of the last do_pose_brush call

vars ==
  <<scene, brush, pc, fake_neighbors, chain, build, grow, frames, last, mesh, par,
    mirror_symmetry_pass>>

Scene == Scenes[scene]

OriginTypes ==
  {"BRUSH_POSE_ORIGIN_TOPOLOGY", "BRUSH_POSE_ORIGIN_FACE_SETS",
   "BRUSH_POSE_ORIGIN_FACE_SETS_FK"}

DeformTypes ==
  {"BRUSH_POSE_DEFORM_ROTATE_TWIST", "BRUSH_POSE_DEFORM_SCALE_TRASLATE",
   "BRUSH_POSE_DEFORM_SQUASH_STRETCH"}

\* pose_offset values of the brushes, scaled by One.
PoseOffsets == {0, (3 * One) \div 10}

\* A setting the code never reads for the brush's other settings is fixed;
\* of the segment counts the code ignores, the least and the greatest stay.
BrushIsCanonical(b) ==
  /\ b.pose_origin_type # "BRUSH_POSE_ORIGIN_TOPOLOGY" => b.pose_offset = 0
  /\ b.pose_deform_type # "BRUSH_POSE_DEFORM_SCALE_TRASLATE" => ~b.lock_rotation
  /\ (b.pose_deform_type = "BRUSH_POSE_DEFORM_SQUASH_STRETCH" \/ b.lock_rotation)
       => ~b.ik_anchored
  /\ (b.pose_origin_type = "BRUSH_POSE_ORIGIN_FACE_SETS_FK"
        \/ b.pose_deform_type # "BRUSH_POSE_DEFORM_ROTATE_TWIST")
       => b.pose_ik_segments \in {1, MaxSegments}

Brushes ==
  {b \in [pose_origin_type : OriginTypes, pose_deform_type : DeformTypes,
          pose_ik_segments : 1..MaxSegments, pose_offset : PoseOffsets,
          ik_anchored : BOOLEAN, connected_only : BOOLEAN, lock_rotation : BOOLEAN] :
     BrushIsCanonical(b)}

NoChain == [segments |-> << >>, grab_delta_offset |-> Zero3]

NoBuild == [kind |-> "none"]

NoGrow == [grow_next_iteration |-> FALSE]

NoInput == [op |-> "none"]

NoReduce == [running |-> FALSE]

\* The mesh before the stroke: the cloth simulation and its deformation_pos,
\* a copy of the positions, exist when the brush deforms the cloth.
InitialMesh(sc) ==
  [positions |-> [v \in Verts(sc) |-> vertex_co_get(sc, v)],
   deformation_pos |->
     IF sc.deform_target = "BRUSH_DEFORM_TARGET_CLOTH_SIM"
     THEN [v \in Verts(sc) |-> vertex_co_get(sc, v)] ELSE << >>]

Init ==
  /\ scene \in SceneIds
  /\ brush \in Brushes
  /\ (Scenes[scene].cut = 0 => ~brush.connected_only)
  /\ pc = "idle"
  /\ fake_neighbors = [use_fake_neighbors |-> FALSE, fake_neighbor_index |-> << >>]
  /\ chain = NoChain
  /\ build = NoBuild
  /\ grow = NoGrow
  /\ frames = 0
  /\ last = NoInput
  /\ mesh = InitialMesh(Scenes[scene])
  /\ par = NoReduce
  /\ mirror_symmetry_pass = 0

\* ------------------------------------------------- face set chain builders

\* The locals of the loop of ik_chain_init_face_sets a flood fill of a
\* segment starts with.  A value-initialized PBVHVertRef has index 0, the
\* first vertex.
FaceSetsFloodStart(segment, loc) ==
  [pose_factor |-> segment.weights,
   visited_face_sets |-> loc.visited_face_sets \cup {loc.current_face_set},
   is_weighted |-> loc.is_weighted,
   fallback_origin |-> Zero3, fallback_count |-> 0,
   current_face_set |-> loc.current_face_set,
   next_face_set_found |-> FALSE, next_face_set |-> SCULPT_FACE_SET_NONE,
   next_vertex |-> 1,
   pose_origin |-> Zero3, tot_co |-> 0, taken |-> {}]

\* The flood fill of one iteration of the loop of ik_chain_init_face_sets.
FaceSetsFlood(sc, fake, radius, segment, i, loc) ==
  flood_fill_execute(
    "face_sets", sc,
    [pose_initial_co |-> vertex_co_get(sc, loc.current_vertex), radius |-> radius,
     fake |-> fake, is_first_iteration |-> i = 1],
    add_initial_with_symmetry(sc, loc.current_vertex, FLT_MAX),
    FaceSetsFloodStart(segment, loc))

\* FaceSetsSegment with the centroid of all the counted vertices as origin,
\* boundary or not.
FaceSetsSegmentFallback(segment, st) ==
  [segment EXCEPT
     !.weights = st.pose_factor,
     !.orig = CentroidOr(st.fallback_origin, st.fallback_count, Zero3)]

\* The segment after its flood fill ended with st: its weights and origin.
FaceSetsSegment(segment, st) ==
  [segment EXCEPT
     !.weights = st.pose_factor,
     !.orig = IF st.tot_co > 0 THEN VDivInt(st.pose_origin, st.tot_co)
              ELSE CentroidOr(st.fallback_origin, st.fallback_count, Zero3)]

\* The locals that the loop of ik_chain_init_face_sets carries to the next
\* iteration.
FaceSetsCarry(st) ==
  [visited_face_sets |-> st.visited_face_sets, is_weighted |-> st.is_weighted,
   current_face_set |-> st.next_face_set, current_vertex |-> st.next_vertex]

\* The loop of ik_chain_init_face_sets from segment i on.  log records the
\* locals at the end of each flood fill.
RECURSIVE FaceSetsLoop(_, _, _, _, _, _, _)

\* One iteration of the loop, st being the end of its flood fill.
FaceSetsStep(sc, fake, radius, segments, i, log, st) ==
  FaceSetsLoop(sc, fake, radius,
               [segments EXCEPT ![i] = FaceSetsSegment(segments[i], st)],
               i + 1, FaceSetsCarry(st), Append(log, st))

FaceSetsLoop(sc, fake, radius, segments, i, loc, log) ==
  IF i > Len(segments) THEN [segments |-> segments, log |-> log]
  ELSE FaceSetsStep(sc, fake, radius, segments, i, log,
                    FaceSetsFlood(sc, fake, radius, segments[i], i, loc))

\* The chain ik_chain_init_face_sets returns, and what its loop recorded.
FaceSetsChain(sc, ik_chain, r) ==
  [chain |-> [ik_chain EXCEPT !.segments =
                ik_chain_origin_heads_init(r.segments, vertex_co_get(sc, sc.active))],
   log |-> r.log]

FaceSetsBuild(sc, fake, radius, ik_chain) ==
  FaceSetsChain(sc, ik_chain,
                FaceSetsLoop(sc, fake, radius, ik_chain.segments, 1,
                             [visited_face_sets |-> {}, is_weighted |-> {},
                              current_face_set |-> SCULPT_FACE_SET_NONE,
                              current_vertex |-> sc.active],
                             << >>))

\* face_set::active_face_set_get: the face set under the cursor, that of the
\* active vertex.
active_face_set_get(sc) == vert_face_set_get(sc, sc.active)

\* The first flood fill of ik_chain_init_face_sets_fk.  floodfill_it is not
\* initialized but at the active vertex: garbage is what the other entries
\* hold.
FkFindMasked(sc, fake, garbage) ==
  flood_fill_execute(
    "fk_find_masked", sc,
    [initial_face_set |-> active_face_set_get(sc), fake |-> fake],
    <<sc.active>>,
    [visited_face_sets |-> {},
     found |-> << >>,
     reached |-> {sc.active},
     floodfill_it |-> [v \in Verts(sc) |-> IF v = sc.active THEN 1 ELSE garbage],
     masked_face_set_it |-> 0,
     masked_face_set |-> SCULPT_FACE_SET_NONE,
     target_face_set |-> SCULPT_FACE_SET_NONE])

\* The vertices ik_chain_init_face_sets_fk accumulates for a face set: the
\* vertices with an iteration that have it and the active face set.
FkBoundary(sc, st, face_set) ==
  {v \in Verts(sc) : /\ st.floodfill_it[v] # 0
                     /\ vert_has_face_set(sc, v, active_face_set_get(sc))
                     /\ vert_has_face_set(sc, v, face_set)}

\* The second flood fill of ik_chain_init_face_sets_fk: the weights.
FkWeights(sc, fake, radius, st, weights) ==
  flood_fill_execute(
    "fk_set_weights", sc,
    [masked_face_set |-> st.masked_face_set, fake |-> fake],
    add_initial_with_symmetry(sc, sc.active, radius),
    [fk_weights |-> weights]).fk_weights

\* ik_chain_init_face_sets_fk once the origin and target accumulators are
\* known: the segment's origin and head, the chain's grab delta offset.
FkSegment(ik_chain, origin, target, initial_location, weights) ==
  [segments |->
     <<[ik_chain.segments[1] EXCEPT
          !.orig = CentroidOr(origin.pos_avg, origin.pos_count, Zero3),
          !.head = CentroidOr(target.pos_avg, target.pos_count, initial_location),
          !.weights = weights]>>,
   grab_delta_offset |->
     IF target.pos_count > 0
     THEN VSub(VDivInt(target.pos_avg, target.pos_count), initial_location)
     ELSE ik_chain.grab_delta_offset]

\* The end of ik_chain_init_face_sets_fk.
FkOriginHeads(ik_chain) ==
  [ik_chain EXCEPT !.segments =
     ik_chain_origin_heads_init(ik_chain.segments, ik_chain.segments[1].head)]

\* ik_chain_init_face_sets_fk after the first flood fill ended with st.
FkChain(sc, fake, radius, initial_location, ik_chain, st) ==
  [chain |->
     FkOriginHeads(
       FkSegment(ik_chain,
                 Accumulate(sc, FkBoundary(sc, st, st.masked_face_set)),
                 Accumulate(sc, IF st.target_face_set # st.masked_face_set
                                THEN FkBoundary(sc, st, st.target_face_set) ELSE {}),
                 initial_location,
                 FkWeights(sc, fake, radius, st, ik_chain.segments[1].weights))),
   log |-> <<st>>]

FkBuild(sc, fake, radius, initial_location, ik_chain, garbage) ==
  FkChain(sc, fake, radius, initial_location, ik_chain, FkFindMasked(sc, fake, garbage))

\* The values an uninitialized entry of floodfill_it is modelled with.
UninitInt == {0, 7}

\* ----------------------------------------------------------------- actions

\* pose_brush_init calls ik_chain_init: fake neighbours are built and enabled
\* unless the brush is connected only, then the strategy is chosen.
ik_chain_init ==
  /\ pc = "idle"
  /\ fake_neighbors' =
       IF ~brush.connected_only
       THEN [use_fake_neighbors |-> TRUE,
             fake_neighbor_index |-> fake_neighbor_index(Scene)]
       ELSE fake_neighbors
  /\ pc' = brush.pose_origin_type
  /\ UNCHANGED <<scene, brush, chain, build, grow, frames, last, mesh, par, mirror_symmetry_pass>>

\* pose_factor_grow of pose_ik_chain_init_topology before calc_pose_data.
InitialFactor(sc, nearest_vertex) ==
  [v \in Verts(sc) |-> IF v = nearest_vertex THEN One ELSE 0]

\* pose_ik_chain_init_topology up to the end of its call of calc_pose_data,
\* which grows the factors when the brush has a pose offset.
pose_ik_chain_init_topology ==
  /\ pc = "BRUSH_POSE_ORIGIN_TOPOLOGY"
  /\ \E rot \in UninitRot :
       \E data \in {calc_pose_data(
                      Scene, fake_neighbors, Scene.location, Scene.radius,
                      brush.pose_offset,
                      InitialFactor(Scene, nearest_vert_calc(Scene, Scene.location,
                                                             FLT_MAX * FLT_MAX)))} :
         /\ chain' = [ik_chain_new(brush_num_effective_segments(brush),
                                   totvert(Scene), rot)
                        EXCEPT !.segments[1].orig = data.r_pose_origin]
         /\ build' = [kind |-> "topology",
                      chain_segment_len |->
                        Scene.radius + RDiv(Scene.radius * brush.pose_offset, One),
                      pose_factor_grow |-> data.r_pose_factor,
                      pose_factor_grow_prev |-> [v \in Verts(Scene) |-> 0],
                      next_chain_segment_target |-> Scene.location,
                      i |-> 1]
         /\ grow' = IF brush.pose_offset # 0
                    THEN GrowEntry(data.r_pose_origin, data.r_pose_origin, 0, NoSegment,
                                   "topology_first")
                    ELSE grow
         /\ pc' = IF brush.pose_offset # 0 THEN "grow" ELSE "topology_first"
  /\ UNCHANGED <<scene, brush, fake_neighbors, frames, last, mesh, par, mirror_symmetry_pass>>

\* grow_pose_factor writing the centroid of the ring before the last one to
\* the origin of the first segment when a call with a pose origin stops.
grow_pose_factor_refined ==
  /\ pc = "grow"
  /\ \E r \in {GrowIteration(Scene, fake_neighbors.fake_neighbor_index, grow,
                             build.pose_factor_grow)} :
       /\ grow' = r.g
       /\ build' = [build EXCEPT !.pose_factor_grow = r.pose_factor]
       /\ chain' = IF r.origin # Null
                   THEN [chain EXCEPT !.segments[grow.r_pose_origin].orig = r.origin]
                   ELSE IF grow.pose_origin # Null /\ ~r.g.grow_next_iteration
                   THEN [chain EXCEPT !.segments[1].orig = r.g.prev_avg]
                   ELSE chain
       /\ pc' = IF r.g.grow_next_iteration THEN "grow" ELSE grow.ret
  /\ UNCHANGED <<scene, brush, fake_neighbors, frames, last, mesh, par, mirror_symmetry_pass>>

\* One iteration of the loop of grow_pose_factor; the call returns after the
\* iteration that clears grow_next_iteration.
grow_pose_factor ==
  /\ pc = "grow"
  /\ \E r \in {GrowIteration(Scene, fake_neighbors.fake_neighbor_index, grow,
                             build.pose_factor_grow)} :
       /\ grow' = r.g
       /\ build' = [build EXCEPT !.pose_factor_grow = r.pose_factor]
       /\ chain' = IF r.origin # Null
                   THEN [chain EXCEPT !.segments[grow.r_pose_origin].orig = r.origin]
                   ELSE chain
       /\ pc' = IF r.g.grow_next_iteration THEN "grow" ELSE grow.ret
  /\ UNCHANGED <<scene, brush, fake_neighbors, frames, last, mesh, par, mirror_symmetry_pass>>

\* The head of the loop of grow_pose_factor: the factors are copied to
\* prev_mask and parallel_reduce starts with an empty accumulator per thread.
grow_pose_factor_snapshot ==
  /\ pc = "grow"
  /\ ~par.running
  /\ par' = [running |-> TRUE, prev_mask |-> build.pose_factor_grow,
             pending |-> 1..NumNodes,
             gftd |-> [w \in 1..NumWorkers |-> [pos_avg |-> Zero3, pos_count |-> 0]]]
  /\ UNCHANGED <<scene, brush, pc, fake_neighbors, chain, build, grow, frames, last, mesh,
                 mirror_symmetry_pass>>

\* A thread of parallel_reduce grows the factors of one pending node.
grow_pose_factor_node ==
  /\ pc = "grow"
  /\ par.running
  /\ \E node \in par.pending, w \in 1..NumWorkers :
       /\ build' = [build EXCEPT !.pose_factor_grow =
                      grow_factors_node(Scene, fake_neighbors.fake_neighbor_index,
                                        par.prev_mask, @, node)]
       /\ par' = [par EXCEPT
                    !.pending = @ \ {node},
                    !.gftd[w] = join(@, NodeFactorData(
                                          Scene, fake_neighbors.fake_neighbor_index,
                                          grow.pose_target, par.prev_mask, node))]
  /\ UNCHANGED <<scene, brush, pc, fake_neighbors, chain, grow, frames, last, mesh,
                 mirror_symmetry_pass>>

\* The rest of an iteration of grow_pose_factor once every node is done: the
\* accumulators are joined and the loop decides on the joined one.
grow_pose_factor_join ==
  /\ pc = "grow"
  /\ par.running
  /\ par.pending = {}
  /\ \E r \in {GrowDecide(GrowGhost(grow, par.prev_mask, JoinFrom(par.gftd, 1)),
                          GrowCentroid(JoinFrom(par.gftd, 1)),
                          JoinFrom(par.gftd, 1).pos_count,
                          build.pose_factor_grow, par.prev_mask)} :
       /\ grow' = r.g
       /\ build' = [build EXCEPT !.pose_factor_grow = r.pose_factor]
       /\ chain' = IF r.origin # Null
                   THEN [chain EXCEPT !.segments[grow.r_pose_origin].orig = r.origin]
                   ELSE chain
       /\ pc' = IF r.g.grow_next_iteration THEN "grow" ELSE grow.ret
  /\ par' = NoReduce
  /\ UNCHANGED <<scene, brush, fake_neighbors, frames, last, mesh, mirror_symmetry_pass>>

\* pose_ik_chain_init_topology after calc_pose_data: the weights of the first
\* segment.
topology_first_segment ==
  /\ pc = "topology_first"
  /\ chain' = [chain EXCEPT !.segments[1].weights = build.pose_factor_grow]
  /\ build' = [build EXCEPT !.next_chain_segment_target = chain.segments[1].orig,
                            !.pose_factor_grow_prev = build.pose_factor_grow,
                            !.i = 2]
  /\ pc' = "topology_loop"
  /\ UNCHANGED <<scene, brush, fake_neighbors, grow, frames, last, mesh, par, mirror_symmetry_pass>>

\* The loop of pose_ik_chain_init_topology calls grow_pose_factor for the
\* next segment.
topology_grow_segment ==
  /\ pc = "topology_loop"
  /\ build.i <= Len(chain.segments)
  /\ grow' = GrowEntry(Null, build.next_chain_segment_target, build.chain_segment_len,
                       build.i, "topology_weights")
  /\ pc' = "grow"
  /\ UNCHANGED <<scene, brush, fake_neighbors, chain, build, frames, last, mesh, par,
                 mirror_symmetry_pass>>

\* The weights of a segment as the grown factors themselves.
SegmentWeightsGrown(pose_factor_grow, pose_factor_grow_prev) == pose_factor_grow

\* The weights of a segment after the first: the grown factors less the
\* factors of the segments before.
SegmentWeights(pose_factor_grow, pose_factor_grow_prev) ==
  [v \in DOMAIN pose_factor_grow |-> pose_factor_grow[v] - pose_factor_grow_prev[v]]

\* topology_segment_weights smoothing the weights of the segment as soon as
\* they are derived.
topology_segment_weights_smoothed ==
  /\ pc = "topology_weights"
  /\ chain' = [chain EXCEPT !.segments[build.i].weights =
                 blur_geometry_data_array(
                   Scene, Scene.pose_smooth_iterations,
                   SegmentWeights(build.pose_factor_grow, build.pose_factor_grow_prev))]
  /\ build' = [build EXCEPT !.next_chain_segment_target = chain.segments[build.i].orig,
                            !.pose_factor_grow_prev = build.pose_factor_grow,
                            !.i = build.i + 1]
  /\ pc' = "topology_loop"
  /\ UNCHANGED <<scene, brush, fake_neighbors, grow, frames, last, mesh, par,
                 mirror_symmetry_pass>>

\* The loop of pose_ik_chain_init_topology after grow_pose_factor: the
\* segment's weights are the difference of the grown and the previous factors.
topology_segment_weights ==
  /\ pc = "topology_weights"
  /\ chain' = [chain EXCEPT !.segments[build.i].weights =
                 SegmentWeights(build.pose_factor_grow, build.pose_factor_grow_prev)]
  /\ build' = [build EXCEPT !.next_chain_segment_target = chain.segments[build.i].orig,
                            !.pose_factor_grow_prev = build.pose_factor_grow,
                            !.i = build.i + 1]
  /\ pc' = "topology_loop"
  /\ UNCHANGED <<scene, brush, fake_neighbors, grow, frames, last, mesh, par, mirror_symmetry_pass>>

\* The end of pose_ik_chain_init_topology.
topology_origin_heads ==
  /\ pc = "topology_loop"
  /\ build.i > Len(chain.segments)
  /\ chain' = [chain EXCEPT !.segments =
                 ik_chain_origin_heads_init(chain.segments, Scene.location)]
  /\ pc' = "ik_chain_init_end"
  /\ UNCHANGED <<scene, brush, fake_neighbors, build, grow, frames, last, mesh, par,
                 mirror_symmetry_pass>>

\* ik_chain_init_face_sets
ik_chain_init_face_sets ==
  /\ pc = "BRUSH_POSE_ORIGIN_FACE_SETS"
  /\ \E rot \in UninitRot :
       \E r \in {FaceSetsBuild(Scene, fake_neighbors, Scene.radius,
                               ik_chain_new(brush_num_effective_segments(brush),
                                            totvert(Scene), rot))} :
         /\ chain' = r.chain
         /\ build' = [kind |-> "face_sets", log |-> r.log]
  /\ pc' = "ik_chain_init_end"
  /\ UNCHANGED <<scene, brush, fake_neighbors, grow, frames, last, mesh, par, mirror_symmetry_pass>>

\* ik_chain_init_face_sets_fk
ik_chain_init_face_sets_fk ==
  /\ pc = "BRUSH_POSE_ORIGIN_FACE_SETS_FK"
  /\ \E rot \in UninitRot, garbage \in UninitInt :
       \E r \in {FkBuild(Scene, fake_neighbors, Scene.radius, Scene.location,
                         ik_chain_new(1, totvert(Scene), rot), garbage)} :
         /\ chain' = r.chain
         /\ build' = [kind |-> "face_sets_fk", log |-> r.log]
  /\ pc' = "ik_chain_init_end"
  /\ UNCHANGED <<scene, brush, fake_neighbors, grow, frames, last, mesh, par, mirror_symmetry_pass>>

\* The end of ik_chain_init leaving the fake neighbours enabled.
ik_chain_init_end_enabled ==
  /\ pc = "ik_chain_init_end"
  /\ pc' = "smooth"
  /\ UNCHANGED <<scene, brush, fake_neighbors, chain, build, grow, frames, last, mesh, par,
                 mirror_symmetry_pass>>

\* The end of ik_chain_init: fake neighbours are disabled again.
ik_chain_init_end ==
  /\ pc = "ik_chain_init_end"
  /\ fake_neighbors' = IF ~brush.connected_only
                       THEN [fake_neighbors EXCEPT !.use_fake_neighbors = FALSE]
                       ELSE fake_neighbors
  /\ pc' = "smooth"
  /\ UNCHANGED <<scene, brush, chain, build, grow, frames, last, mesh, par, mirror_symmetry_pass>>

\* The end of pose_brush_init: the weights of each segment are smoothed.
pose_brush_init_smooth ==
  /\ pc = "smooth"
  /\ chain' = [chain EXCEPT !.segments =
                 [i \in 1..Len(chain.segments) |->
                    [chain.segments[i] EXCEPT !.weights =
                       blur_geometry_data_array(Scene, Scene.pose_smooth_iterations, @)]]]
  /\ pc' = "stroke"
  /\ UNCHANGED <<scene, brush, fake_neighbors, build, grow, frames, last, mesh, par,
                 mirror_symmetry_pass>>

\* ------------------------------------------------------------ the brush step

\* The result of a float division by zero or of the square root of a value
\* that is not positive (an infinity or a NaN): a value no finite result has.
NotFinite == One * One * One

\* The grab deltas of the modelled frames.
GrabDeltas == {<<0, 0, 0>>, <<GridStep, GridStep \div 2, 0>>, <<-GridStep, 0, 2 * GridStep>>}

\* The rolls of the modelled frames, in units of 45 degrees.
Rolls == {2, 4}

\* The input of a frame: the grab delta, the invert flag and the roll the
\* mouse positions give.  A value the brush's deform type never reads is fixed.
\* The grab delta of a drag to the origin of the first segment: the target
\* of the rotate solve is then that origin.  It is an input of the frames
\* that run the rotate solve.
OriginDelta ==
  VSub(VSub(chain.segments[1].orig, Scene.location),
       IF brush.pose_deform_type = "BRUSH_POSE_DEFORM_ROTATE_TWIST"
       THEN chain.grab_delta_offset ELSE Zero3)

FrameInputs ==
  {in \in [grab_delta : GrabDeltas \cup {OriginDelta}, invert : BOOLEAN,
           roll : Rolls \cup {0}] :
     /\ IF in.invert /\ brush.pose_deform_type = "BRUSH_POSE_DEFORM_ROTATE_TWIST"
        THEN in.grab_delta = Zero3 /\ in.roll # 0
        ELSE /\ in.roll = 0
             /\ brush.pose_deform_type = "BRUSH_POSE_DEFORM_SQUASH_STRETCH" => ~in.invert
     /\ in.grab_delta \notin GrabDeltas
          => /\ ~in.invert
             /\ brush.pose_deform_type # "BRUSH_POSE_DEFORM_SQUASH_STRETCH"
             /\ brush.pose_deform_type = "BRUSH_POSE_DEFORM_SCALE_TRASLATE"
                  => ~brush.lock_rotation}

\* segment_len / (segment_len - dist), scaled by One.
ScaleFromDistance(segment_len, den) ==
  IF den = 0 THEN NotFinite
  ELSE IF den > 0 THEN RDiv(segment_len * One, den)
  ELSE -RDiv(segment_len * One, -den)

\* calc_scale_from_grab_delta: dist_signed_to_plane_v3 of the target to the
\* plane through the initial head with the segment's direction as normal.
calc_scale_from_grab_delta(segments, ik_target) ==
  ScaleFromDistance(
    segments[1].len,
    segments[1].len
      - RDiv(Dot(VSub(ik_target, segments[1].initial_head),
                 Normalize(VSub(segments[1].initial_head, segments[1].initial_orig))),
             One))

\* calc_rotate_deform
calc_rotate_deform(ik_chain, in) ==
  solve_ik_chain(ik_chain.segments,
                 VAdd(VAdd(Scene.location, in.grab_delta), ik_chain.grab_delta_offset),
                 brush.ik_anchored)

\* calc_twist_deform
calc_twist_deform(ik_chain, in) == solve_roll_chain(ik_chain.segments, in.roll)

\* The three equal components calc_scale_deform makes of the scale.
Scale3(scale) == <<scale, scale, scale>>

\* calc_scale_deform: the scale is computed after the chain was solved, from
\* fields the solve leaves alone.
calc_scale_deform(ik_chain, in) ==
  solve_scale_chain(
    IF ~brush.lock_rotation
    THEN solve_ik_chain(ik_chain.segments, VAdd(Scene.location, in.grab_delta),
                        brush.ik_anchored)
    ELSE ik_chain.segments,
    Scale3(calc_scale_from_grab_delta(ik_chain.segments,
                                      VAdd(Scene.location, in.grab_delta))))

\* sqrtf(1.0f / scale), scaled by One.
InverseRoot(scale) ==
  IF scale = NotFinite \/ scale <= 0 THEN NotFinite
  ELSE Sqrt(RDiv(One * One, scale) * One)

\* The scale of calc_squash_stretch_deform from its Z component.
SquashScale(scale2) == <<InverseRoot(scale2), InverseRoot(scale2), scale2>>

\* calc_squash_stretch_deform
calc_squash_stretch_deform(ik_chain, in) ==
  solve_scale_chain(
    ik_chain.segments,
    SquashScale(calc_scale_from_grab_delta(ik_chain.segments,
                                           VAdd(Scene.location, in.grab_delta))))

\* The switch of do_pose_brush on the deform type: the segments solved.
SolveDeform(ik_chain, in) ==
  CASE brush.pose_deform_type = "BRUSH_POSE_DEFORM_ROTATE_TWIST" ->
         IF in.invert THEN calc_twist_deform(ik_chain, in)
         ELSE calc_rotate_deform(ik_chain, in)
    [] brush.pose_deform_type = "BRUSH_POSE_DEFORM_SCALE_TRASLATE" ->
         IF in.invert THEN solve_translate_chain(ik_chain.segments, in.grab_delta)
         ELSE calc_scale_deform(ik_chain, in)
    [] brush.pose_deform_type = "BRUSH_POSE_DEFORM_SQUASH_STRETCH" ->
         calc_squash_stretch_deform(ik_chain, in)

\* PAINT_SYMM_AREAS
PAINT_SYMM_AREAS == 8

\* Whether SCULPT_flip_v3_by_symm_area and SCULPT_flip_quat_by_symm_area
\* flip along axis i: the axis is a symmetry axis, and either the area is on
\* its far side or the pivot is.
FlipsAxis(symm, symmarea, pivot, i) ==
  Bit(symm, i) /\ (Bit(symmarea, i) # (pivot[i + 1] < 0))

\* SCULPT_flip_v3_by_symm_area
flip_v3_by_symm_area(v, symm, symmarea, pivot) ==
  [i \in 1..3 |-> IF FlipsAxis(symm, symmarea, pivot, i - 1) THEN -v[i] ELSE v[i]]

\* SCULPT_flip_quat_by_symm_area: a flip along an axis negates the two other
\* imaginary components.
flip_quat_by_symm_area(q, symm, symmarea, pivot) ==
  <<q[1],
    IF FlipsAxis(symm, symmarea, pivot, 1) # FlipsAxis(symm, symmarea, pivot, 2)
    THEN -q[2] ELSE q[2],
    IF FlipsAxis(symm, symmarea, pivot, 0) # FlipsAxis(symm, symmarea, pivot, 2)
    THEN -q[3] ELSE q[3],
    IF FlipsAxis(symm, symmarea, pivot, 0) # FlipsAxis(symm, symmarea, pivot, 1)
    THEN -q[4] ELSE q[4]>>

\* ---------------------------------------------------------------- matrices

\* An affine matrix is the record of its three axes x, y, z, scaled by One,
\* and of its location w.  A vector with a non-finite component is
\* represented by NaN3, and an operation on a non-finite operand is
\* non-finite.
NaN3 == <<NotFinite, NotFinite, NotFinite>>

IsFinite3(v) == v[1] # NotFinite /\ v[2] # NotFinite /\ v[3] # NotFinite

IsFiniteM(mat) ==
  IsFinite3(mat.x) /\ IsFinite3(mat.y) /\ IsFinite3(mat.z) /\ IsFinite3(mat.w)

\* unit_m4
unit_m4 ==
  [x |-> <<One, 0, 0>>, y |-> <<0, One, 0>>, z |-> <<0, 0, One>>, w |-> Zero3]

\* quat_to_mat4: the matrix of a quaternion, by the products of its
\* components doubled.
quat_to_mat4(q) ==
  [x |-> <<One - RDiv(2 * (q[3] * q[3] + q[4] * q[4]), One),
           RDiv(2 * (q[1] * q[4] + q[2] * q[3]), One),
           RDiv(2 * (q[2] * q[4] - q[1] * q[3]), One)>>,
   y |-> <<RDiv(2 * (q[2] * q[3] - q[1] * q[4]), One),
           One - RDiv(2 * (q[2] * q[2] + q[4] * q[4]), One),
           RDiv(2 * (q[1] * q[2] + q[3] * q[4]), One)>>,
   z |-> <<RDiv(2 * (q[1] * q[3] + q[2] * q[4]), One),
           RDiv(2 * (q[3] * q[4] - q[1] * q[2]), One),
           One - RDiv(2 * (q[2] * q[2] + q[3] * q[3]), One)>>,
   w |-> Zero3]

\* mul_v3_fl: a vector times a float that may be non-finite.
mul_v3_fl(v, f) == IF f = NotFinite \/ ~IsFinite3(v) THEN NaN3 ELSE VMulFl(v, f)

\* The loop of do_pose_brush that applies the segment's scale to the axes.
ScaleAxes(mat, scale) ==
  [mat EXCEPT !.x = mul_v3_fl(@, scale[1]),
              !.y = mul_v3_fl(@, scale[2]),
              !.z = mul_v3_fl(@, scale[3])]

\* The axes of a matrix applied to a vector.
MulAxes(mat, v) ==
  <<RDiv(mat.x[1] * v[1] + mat.y[1] * v[2] + mat.z[1] * v[3], One),
    RDiv(mat.x[2] * v[1] + mat.y[2] * v[2] + mat.z[2] * v[3], One),
    RDiv(mat.x[3] * v[1] + mat.y[3] * v[2] + mat.z[3] * v[3], One)>>

\* translate_m4: the translation is applied in the matrix's own axes.
translate_m4(mat, t) ==
  [mat EXCEPT !.w = IF IsFiniteM(mat) /\ IsFinite3(t)
                    THEN VAdd(@, MulAxes(mat, t)) ELSE NaN3]

\* mul_m4_m4_post(R, B): R = R * B.
mul_m4_m4_post(R, B) ==
  [x |-> MulAxes(R, B.x), y |-> MulAxes(R, B.y), z |-> MulAxes(R, B.z),
   w |-> VAdd(MulAxes(R, B.w), R.w)]

\* The determinant of the axes of a matrix, scaled by One * One.
Determinant(mat) == Dot(mat.x, Cross(mat.y, mat.z))

\* A cofactor row of the axes divided by the determinant, scaled by One.
CofactorRow(c, det) ==
  <<Sign(det) * RDiv(c[1] * One * One, Abs(det)),
    Sign(det) * RDiv(c[2] * One * One, Abs(det)),
    Sign(det) * RDiv(c[3] * One * One, Abs(det))>>

\* The matrix whose rows are the three vectors.
FromRows(r1, r2, r3, w) ==
  [x |-> <<r1[1], r2[1], r3[1]>>, y |-> <<r1[2], r2[2], r3[2]>>,
   z |-> <<r1[3], r2[3], r3[3]>>, w |-> w]

\* The inverse by the cofactors and the determinant: the location of the
\* inverse is the inverse's axes applied to the negated location.
InvertBy(mat, det) ==
  translate_m4(FromRows(CofactorRow(Cross(mat.y, mat.z), det),
                        CofactorRow(Cross(mat.z, mat.x), det),
                        CofactorRow(Cross(mat.x, mat.y), det), Zero3),
               VSub(Zero3, mat.w))

\* invert_m4_m4: the zero matrix for a matrix that has no inverse.
invert_m4_m4(mat) ==
  IF Determinant(mat) = 0
  THEN [x |-> Zero3, y |-> Zero3, z |-> Zero3, w |-> Zero3]
  ELSE InvertBy(mat, Determinant(mat))

\* math::transform_point
transform_point(mat, p) ==
  IF IsFiniteM(mat) /\ IsFinite3(p) THEN VAdd(MulAxes(mat, p), mat.w) ELSE NaN3

\* ortho_basis_v3v3_v3 for the length d of n's X and Y components: two axes
\* orthogonal to n; the X and Y axes when n has no X and Y components.
OrthoBasisBy(n, d) ==
  IF d > 0
  THEN [x |-> <<RDiv(n[2] * One, d), -RDiv(n[1] * One, d), 0>>,
        y |-> <<RDiv(n[3] * RDiv(n[1] * One, d), One),
                RDiv(n[3] * RDiv(n[2] * One, d), One),
                -RDiv(n[1] * RDiv(n[1] * One, d) + n[2] * RDiv(n[2] * One, d), One)>>,
        z |-> n, w |-> Zero3]
  ELSE [x |-> <<IF n[3] < 0 THEN -One ELSE One, 0, 0>>, y |-> <<0, One, 0>>,
        z |-> n, w |-> Zero3]

\* ortho_basis_v3v3_v3
ortho_basis_v3v3_v3(n) == OrthoBasisBy(n, Sqrt(n[1] * n[1] + n[2] * n[2]))

\* align_pivot_local_space: the Z axis of the pivot's local space is the
\* direction of the flipped segment, the two other axes are orthogonal to it.
align_pivot_local_space(symm, symm_area, segment, grab_location) ==
  ortho_basis_v3v3_v3(
    Normalize(VSub(flip_v3_by_symm_area(segment.head, symm, symm_area, grab_location),
                   flip_v3_by_symm_area(segment.orig, symm, symm_area, grab_location))))

\* The transform do_pose_brush composes for a segment and a symmetry area:
\* the rotation, the unit matrix when the brush squashes and stretches, its
\* axes scaled by the segment's scale, translated by the flipped origin's
\* displacement.
TransMat(segment, squash, symm, symm_it, pivot) ==
  translate_m4(
    ScaleAxes(IF squash THEN unit_m4
              ELSE quat_to_mat4(flip_quat_by_symm_area(segment.rot, symm, symm_it, pivot)),
              segment.scale),
    VSub(flip_v3_by_symm_area(segment.orig, symm, symm_it, pivot),
         flip_v3_by_symm_area(segment.initial_orig, symm, symm_it, pivot)))

\* The pivot do_pose_brush composes for a segment and a symmetry area: the
\* translation to the flipped origin times the pivot's local space, the unit
\* matrix unless the brush squashes and stretches.
PivotMat(segment, squash, symm, symm_it, pivot) ==
  mul_m4_m4_post(
    translate_m4(unit_m4, flip_v3_by_symm_area(segment.orig, symm, symm_it, pivot)),
    IF squash THEN align_pivot_local_space(symm, symm_it, segment, pivot)
    ELSE unit_m4)

\* The bits of a symmetry area that the enabled symmetry axes look at: the
\* flips of flip_v3_by_symm_area and flip_qt_by_symm_area test an area's bit
\* only for an axis enabled in symm, so two areas with the same masked bits
\* get the same matrices.
MaskedArea(symm, symm_it) ==
  (IF Bit(symm, 0) /\ Bit(symm_it, 0) THEN 1 ELSE 0)
  + (IF Bit(symm, 1) /\ Bit(symm_it, 1) THEN 2 ELSE 0)
  + (IF Bit(symm, 2) /\ Bit(symm_it, 2) THEN 4 ELSE 0)

\* The last statement of the loops of do_pose_brush over the symmetry areas:
\* pivot_mat_inv is computed from the pivot_mat just stored.
InvertPivots(trans_mat, pivot_mat) ==
  [trans_mat |-> trans_mat, pivot_mat |-> pivot_mat,
   pivot_mat_inv |-> invert_m4_m4(pivot_mat)]

\* The body of the loops of do_pose_brush over the symmetry areas for one
\* segment: the matrices of each masked area.
ComposeSegment(segment, squash, symm, pivot) ==
  [c \in {MaskedArea(symm, k - 1) : k \in 1..PAINT_SYMM_AREAS} |->
     InvertPivots(TransMat(segment, squash, symm, c, pivot),
                  PivotMat(segment, squash, symm, c, pivot))]

\* The loops of do_pose_brush over the symmetry areas and the segments.
Compose(segments, squash, symm, pivot) ==
  [i \in 1..Len(segments) |-> ComposeSegment(segments[i], squash, symm, pivot)]

\* The matrices the loops of do_pose_brush store in the segments, one of
\* each kind per symmetry area.
StoreMatrices(segments, symm, composed) ==
  [i \in 1..Len(segments) |->
     [segments[i] EXCEPT
        !.trans_mat = [k \in 1..PAINT_SYMM_AREAS |->
                         composed[i][MaskedArea(symm, k - 1)].trans_mat],
        !.pivot_mat = [k \in 1..PAINT_SYMM_AREAS |->
                         composed[i][MaskedArea(symm, k - 1)].pivot_mat],
        !.pivot_mat_inv = [k \in 1..PAINT_SYMM_AREAS |->
                             composed[i][MaskedArea(symm, k - 1)].pivot_mat_inv]]]

\* --------------------------------------------------------- the applicator

\* a + b and a - b for vectors that may be non-finite.
Add3(a, b) == IF IsFinite3(a) /\ IsFinite3(b) THEN VAdd(a, b) ELSE NaN3

Sub3(a, b) == IF IsFinite3(a) /\ IsFinite3(b) THEN VSub(a, b) ELSE NaN3

\* SCULPT_get_vertex_symm_area: a bit for each negative coordinate.
get_vertex_symm_area(co) ==
  (IF co[1] < 0 THEN 1 ELSE 0) + (IF co[2] < 0 THEN 2 ELSE 0)
    + (IF co[3] < 0 THEN 4 ELSE 0)

\* The body of the loop of calc_segment_translations for a position in the
\* symmetry area symm_area: the position through pivot_mat_inv, trans_mat
\* and pivot_mat, minus the position.
SegmentTranslation(position, segment, symm_area) ==
  Sub3(transform_point(
         segment.pivot_mat[symm_area + 1],
         transform_point(
           segment.trans_mat[symm_area + 1],
           transform_point(segment.pivot_mat_inv[symm_area + 1], position))),
       position)

\* calc_segment_translations, for one position.
calc_segment_translations(position, segment) ==
  SegmentTranslation(position, segment, get_vertex_symm_area(position))

\* fill_factor_from_hide_and_mask and auto_mask::calc_vert_factors without
\* automasking: 0 for a hidden vertex, 1 - mask otherwise.
VertFactor(sc, v) ==
  IF ~vert_visible_get(sc, v) \/ v \in sc.masked THEN 0
  ELSE IF v \in sc.half_masked THEN One \div 2
  ELSE One

\* scale_translations for one vertex: 0 * inf and 0 * NaN are NaN.
scale_translations(translation, factor) == mul_v3_fl(translation, factor)

\* The loop over the segments of calc_mesh, calc_grids and calc_bmesh for the
\* vertex v, from segment i on: the sum of the segments' translations of
\* the original position, each scaled by the segment's weight of the vertex.
RECURSIVE SegmentsTranslation(_, _, _, _)
SegmentsTranslation(segments, i, v, orig) ==
  IF i > Len(segments) THEN Zero3
  ELSE Add3(scale_translations(calc_segment_translations(orig, segments[i]),
                               segments[i].weights[v]),
            SegmentsTranslation(segments, i + 1, v, orig))

\* The translation of the vertex v before the switch on the deform target.
VertTranslation(sc, segments, v) ==
  scale_translations(SegmentsTranslation(segments, 1, v, vertex_co_get(sc, v)),
                     VertFactor(sc, v))

\* reset_translations_to_original: the translation that leads from the
\* current position to the original position translated.
reset_translations_to_original(translation, position, orig) ==
  Sub3(translation, Sub3(position, orig))

\* The geometry case: the translations are applied to the positions.
WritePositions(sc, segments, m) ==
  [m EXCEPT !.positions =
     [v \in Verts(sc) |->
        Add3(m.positions[v],
             reset_translations_to_original(VertTranslation(sc, segments, v),
                                            m.positions[v], vertex_co_get(sc, v)))]]

\* The cloth case: the original positions translated are scattered into the
\* simulation's deformation_pos.
WriteDeformationPos(sc, segments, m) ==
  [m EXCEPT !.deformation_pos =
     [v \in Verts(sc) |-> Add3(VertTranslation(sc, segments, v), vertex_co_get(sc, v))]]

\* calc_mesh over the nodes of the mesh.
calc_mesh(sc, segments, m) ==
  IF sc.deform_target = "BRUSH_DEFORM_TARGET_GEOMETRY"
  THEN WritePositions(sc, segments, m)
  ELSE WriteDeformationPos(sc, segments, m)

\* calc_grids over the nodes of the grids.
calc_grids(sc, segments, m) ==
  IF sc.deform_target = "BRUSH_DEFORM_TARGET_GEOMETRY"
  THEN WritePositions(sc, segments, m)
  ELSE WriteDeformationPos(sc, segments, m)

calc_bmesh_positions(sc, segments, m) == WritePositions(sc, segments, m)

\* calc_bmesh over the nodes of the BMesh.
calc_bmesh(sc, segments, m) ==
  IF sc.deform_target = "BRUSH_DEFORM_TARGET_GEOMETRY"
  THEN WritePositions(sc, segments, m)
  ELSE WriteDeformationPos(sc, segments, m)

\* The switch of do_pose_brush on the representation of the mesh.
DeformNodes(sc, segments, m) ==
  CASE sc.pbvh_type = "Mesh" -> calc_mesh(sc, segments, m)
    [] sc.pbvh_type = "Grids" -> calc_grids(sc, segments, m)
    [] sc.pbvh_type = "BMesh" -> calc_bmesh(sc, segments, m)

\* do_pose_brush on the first symmetry pass: the chain is solved for the
\* frame's input, the transforms of the segments are composed and the nodes
\* are deformed.
do_pose_brush ==
  /\ pc = "stroke"
  /\ frames < MaxFrames
  /\ \E in \in FrameInputs :
       /\ \E segments \in {SolveDeform(chain, in)} :
            \E composed \in {Compose(segments,
                                     brush.pose_deform_type = "BRUSH_POSE_DEFORM_SQUASH_STRETCH",
                                     Scene.symm, Scene.location)} :
              chain' = [chain EXCEPT !.segments =
                          StoreMatrices(segments, Scene.symm, composed)]
       /\ last' = in
  /\ mesh' = DeformNodes(Scene, chain'.segments, mesh)
  /\ frames' = frames + 1
  /\ mirror_symmetry_pass' = 0
  /\ UNCHANGED <<scene, brush, pc, fake_neighbors, build, grow, par>>

\* do_pose_brush running its whole body again on a later symmetry pass, with
\* the inputs of the frame.
do_pose_brush_every_pass ==
  /\ pc = "stroke"
  /\ frames > 0
  /\ \E i \in 1..Scene.symm :
       /\ is_symmetry_iteration_valid(i, Scene.symm)
       /\ i > mirror_symmetry_pass
       /\ mirror_symmetry_pass' = i
  /\ \E segments \in {SolveDeform(chain, last)} :
       \E composed \in {Compose(segments,
                                brush.pose_deform_type = "BRUSH_POSE_DEFORM_SQUASH_STRETCH",
                                Scene.symm, Scene.location)} :
         chain' = [chain EXCEPT !.segments =
                     StoreMatrices(segments, Scene.symm, composed)]
  /\ mesh' = DeformNodes(Scene, chain'.segments, mesh)
  /\ UNCHANGED <<scene, brush, pc, fake_neighbors, build, grow, frames, last, par>>

\* do_pose_brush on a later symmetry pass of the frame returns at once.  The
\* stroke calls the brush once for each valid symmetry iteration, in
\* ascending order.
do_pose_brush_mirror_pass ==
  /\ pc = "stroke"
  /\ frames > 0
  /\ \E i \in 1..Scene.symm :
       /\ is_symmetry_iteration_valid(i, Scene.symm)
       /\ i > mirror_symmetry_pass
       /\ mirror_symmetry_pass' = i
  /\ UNCHANGED <<scene, brush, pc, fake_neighbors, chain, build, grow, frames, last, mesh,
                 par>>

Next ==
  \/ ik_chain_init
  \/ pose_ik_chain_init_topology
  \/ grow_pose_factor
  \/ topology_first_segment
  \/ topology_grow_segment
  \/ topology_segment_weights
  \/ topology_origin_heads
  \/ ik_chain_init_face_sets
  \/ ik_chain_init_face_sets_fk
  \/ ik_chain_init_end
  \/ pose_brush_init_smooth
  \/ do_pose_brush
  \/ do_pose_brush_mirror_pass

Spec == Init /\ [][Next]_vars

\* The construction of a chain by topology with the rings of grow_pose_factor
\* run node by node, in any order and on any thread.
InitRing == Init /\ brush.pose_origin_type = "BRUSH_POSE_ORIGIN_TOPOLOGY"

NextRing ==
  \/ ik_chain_init
  \/ pose_ik_chain_init_topology
  \/ grow_pose_factor_snapshot
  \/ grow_pose_factor_node
  \/ grow_pose_factor_join
  \/ topology_first_segment
  \/ topology_grow_segment
  \/ topology_segment_weights
  \/ topology_origin_heads

SpecRing == InitRing /\ [][NextRing]_vars

\* The construction of a chain by topology, with every call of
\* grow_pose_factor running on: a thread that is in the loop executes its
\* next iteration.
NextGrow ==
  \/ ik_chain_init
  \/ pose_ik_chain_init_topology
  \/ grow_pose_factor
  \/ topology_first_segment
  \/ topology_grow_segment
  \/ topology_segment_weights
  \/ topology_origin_heads

SpecGrow == InitRing /\ [][NextGrow]_vars /\ WF_vars(grow_pose_factor)

\* ------------------------------------------------------------ properties

\* The segments of the chain.
Segments == chain.segments

\* The chain is constructed: ik_chain_init has reached its end.
Constructed == pc \in {"ik_chain_init_end", "smooth", "stroke"}

\* The deform type is one of the two that scale.
ScalingDeform ==
  brush.pose_deform_type \in {"BRUSH_POSE_DEFORM_SCALE_TRASLATE",
                              "BRUSH_POSE_DEFORM_SQUASH_STRETCH"}

\* The frame that led to this state ran solve_ik_chain.
RotateSolved ==
  /\ frames > 0
  /\ ~last.invert
  /\ \/ brush.pose_deform_type = "BRUSH_POSE_DEFORM_ROTATE_TWIST"
     \/ /\ brush.pose_deform_type = "BRUSH_POSE_DEFORM_SCALE_TRASLATE"
        /\ ~brush.lock_rotation

\* The frame that led to this state ran solve_translate_chain.
TranslateSolved ==
  /\ frames > 0
  /\ last.invert
  /\ brush.pose_deform_type = "BRUSH_POSE_DEFORM_SCALE_TRASLATE"

\* C1: after solve_ik_chain ran with the anchor flag set, the orig of the last
\* segment of the chain equals its initial_orig.
C1_AnchoredLastOrigin ==
  (RotateSolved /\ brush.ik_anchored)
    => Segments[Len(Segments)].orig = Segments[Len(Segments)].initial_orig

\* A second frame solved an anchored chain of several segments, and the
\* solve moved the first segment's origin.
C1_Witness ==
  /\ RotateSolved
  /\ brush.ik_anchored
  /\ frames = MaxFrames
  /\ Len(Segments) >= 2
  /\ last.grab_delta # Zero3
  /\ Segments[1].orig # Segments[1].initial_orig

\* C2: after a rotate solve the distance between every segment's head and its
\* orig equals the len captured at construction.
C2_LengthPreserved ==
  RotateSolved
    => \A i \in 1..Len(Segments) :
         Abs(Distance(Segments[i].head, Segments[i].orig) - Segments[i].len) <= Eps

\* C3: after solve_translate_chain ran with a delta, every segment's head is
\* its initial_head plus the delta, its orig is its initial_orig plus the
\* delta and its rot is the identity, whatever the state before.
C3_TranslateFromInitial ==
  TranslateSolved
    => \A i \in 1..Len(Segments) :
         /\ Segments[i].head = VAdd(Segments[i].initial_head, last.grab_delta)
         /\ Segments[i].orig = VAdd(Segments[i].initial_orig, last.grab_delta)
         /\ Segments[i].rot = unit_qt

\* A second frame translated the chain by the zero delta: the chain is back
\* at its initial positions.
C3_Witness ==
  /\ TranslateSolved
  /\ frames = MaxFrames
  /\ last.grab_delta = Zero3
  /\ Len(Segments) >= 1
  /\ Segments[1].len > 0
  /\ Segments[1].head = Segments[1].initial_head
  /\ Segments[1].orig = Segments[1].initial_orig

\* The scale vector a scaling frame hands to solve_scale_chain.
GivenScale(segments, in) ==
  IF brush.pose_deform_type = "BRUSH_POSE_DEFORM_SQUASH_STRETCH"
  THEN SquashScale(calc_scale_from_grab_delta(segments,
                                              VAdd(Scene.location, in.grab_delta)))
  ELSE Scale3(calc_scale_from_grab_delta(segments,
                                         VAdd(Scene.location, in.grab_delta)))

\* The segments solve_scale_chain is called on in a scaling frame.
ScaleOperand(segments, in) ==
  IF brush.pose_deform_type = "BRUSH_POSE_DEFORM_SCALE_TRASLATE" /\ ~brush.lock_rotation
  THEN solve_ik_chain(segments, VAdd(Scene.location, in.grab_delta), brush.ik_anchored)
  ELSE segments

\* The step is a frame that runs solve_scale_chain.
ScaleStep ==
  /\ pc = "stroke"
  /\ frames' = frames + 1
  /\ ScalingDeform
  /\ ~last'.invert

\* C4: solve_scale_chain stores the scale vector it is given on every
\* segment and leaves orig, head, rot, len, initial_orig and initial_head of
\* every segment as they were.
C4_ScaleOnly ==
  [][ScaleStep
       => \A i \in 1..Len(Segments) :
            /\ chain'.segments[i].scale = GivenScale(Segments, last')
            /\ chain'.segments[i].orig = ScaleOperand(Segments, last')[i].orig
            /\ chain'.segments[i].head = ScaleOperand(Segments, last')[i].head
            /\ chain'.segments[i].rot = ScaleOperand(Segments, last')[i].rot
            /\ chain'.segments[i].len = Segments[i].len
            /\ chain'.segments[i].initial_orig = Segments[i].initial_orig
            /\ chain'.segments[i].initial_head = Segments[i].initial_head]_vars

\* A squash and stretch frame stored a scale whose components differ and
\* left the positions at their initial values.
C4_Witness ==
  /\ frames > 0
  /\ brush.pose_deform_type = "BRUSH_POSE_DEFORM_SQUASH_STRETCH"
  /\ Len(Segments) >= 1
  /\ Segments[1].scale[1] # Segments[1].scale[3]
  /\ Segments[1].scale[3] # NotFinite
  /\ Segments[1].orig = Segments[1].initial_orig
  /\ Segments[1].head = Segments[1].initial_head

\* C5: len, initial_orig and initial_head of a segment are written by
\* ik_chain_origin_heads_init only: no other step of the construction, no
\* solve and no composition of a frame changes them.
C5_InitialFieldsFrozen ==
  [][(pc' # "ik_chain_init_end" /\ Len(chain'.segments) = Len(Segments))
       => \A i \in 1..Len(Segments) :
            /\ chain'.segments[i].len = Segments[i].len
            /\ chain'.segments[i].initial_orig = Segments[i].initial_orig
            /\ chain'.segments[i].initial_head = Segments[i].initial_head]_vars

\* After the last frame a rotate solve has moved a segment away from its
\* initial origin and head, and its length is still positive.
C5_Witness ==
  /\ pc = "stroke"
  /\ frames = MaxFrames
  /\ RotateSolved
  /\ \E i \in 1..Len(Segments) :
       /\ Segments[i].orig # Segments[i].initial_orig
       /\ Segments[i].head # Segments[i].initial_head
       /\ Segments[i].len > 0

\* An iteration of grow_pose_factor has just run: the state is inside the
\* call or at its return.
GrowIterated ==
  /\ "ring" \in DOMAIN grow
  /\ grow.ring > 0
  /\ pc \in {"grow", grow.ret}

\* The iteration that just ran tested a ring that has vertices against the
\* maximum length (pose_origin is null).
DistanceTested == GrowIterated /\ grow.pose_origin = Null /\ grow.count # 0

\* The iteration that just ran stopped the growth on the maximum length.
DistanceStopped == DistanceTested /\ ~grow.grow_next_iteration

\* C6 as stated: in target-distance mode the growth stops at the first ring
\* whose centroid is further from the target than the maximum length, and
\* the origin reported is the centroid of the ring before the stopping ring.
C6_ReportsRingBefore ==
  (DistanceStopped /\ grow.ring >= 2)
    => /\ grow.len > grow.max_len
       /\ Segments[grow.r_pose_origin].orig = grow.prev_avg

\* C6: in target-distance mode the growth goes on while the distance of the
\* ring's centroid to the target is below the maximum length and stops at
\* the first ring where it is not; the origin reported is the centroid of
\* the stopping ring itself, and the factors are those from before that ring.
C6_ReportsStoppingRing ==
  DistanceTested
    => /\ grow.grow_next_iteration <=> grow.len < grow.max_len
       /\ grow.len = Distance(grow.avg, grow.pose_target)
       /\ ~grow.grow_next_iteration
            => /\ pc = grow.ret
               /\ Segments[grow.r_pose_origin].orig = grow.avg
               /\ build.pose_factor_grow = grow.entry_mask

\* The growth stopped on the maximum length at its second ring or later, the
\* centroid of the stopping ring differs from that of the ring before it,
\* and the ring had grown the factors.
C6_Witness ==
  /\ DistanceStopped
  /\ grow.ring >= 2
  /\ grow.avg # grow.prev_avg
  /\ grow.prev_count # 0
  /\ Segments[grow.r_pose_origin].orig = grow.avg

\* The iteration that just ran found no vertex in its ring.
EmptyRing == GrowIterated /\ grow.count = 0

\* C7: when a ring has no vertex the growth stops in that same iteration and
\* reports the unmodified target as origin, with a maximum length and with a
\* pose origin alike; a call without r_pose_origin leaves the origin alone.
C7_EmptyRingStops ==
  EmptyRing
    => /\ ~grow.grow_next_iteration
       /\ pc = grow.ret
       /\ IF grow.r_pose_origin # NoSegment
          THEN Segments[grow.r_pose_origin].orig = grow.pose_target
          ELSE Segments[1].orig = grow.pose_origin

\* The growth of a segment after the first ran out of vertices after growing
\* for a ring or more, and the segment's origin is the target of the call.
C7_Witness ==
  /\ EmptyRing
  /\ grow.pose_origin = Null
  /\ grow.r_pose_origin >= 2
  /\ grow.ring >= 2
  /\ grow.prev_count # 0
  /\ Segments[grow.r_pose_origin].orig = grow.pose_target
  /\ Segments[grow.r_pose_origin].orig # grow.prev_avg

\* The sum of the weights the segments from i on give to vertex v.
RECURSIVE WeightSum(_, _, _)
WeightSum(segments, i, v) ==
  IF i > Len(segments) THEN 0
  ELSE segments[i].weights[v] + WeightSum(segments, i + 1, v)

\* The topology strategy is past its loop and the weights are not smoothed yet.
TopologyUnsmoothed ==
  /\ build.kind = "topology"
  /\ pc \in {"ik_chain_init_end", "smooth"}

\* C8: in a chain of two segments or more built by the topology strategy,
\* before smoothing, the weights of the segments of every vertex sum to one
\* at most.
C8_WeightSumAtMostOne ==
  (TopologyUnsmoothed /\ Len(Segments) >= 2)
    => \A v \in Verts(Scene) :
         /\ WeightSum(Segments, 1, v) <= One
         /\ \A i \in 1..Len(Segments) : Segments[i].weights[v] >= 0

\* A topology chain of the largest size whose first and last segments both
\* weigh vertices, a vertex of the last one with the full weight.
C8_Witness ==
  /\ TopologyUnsmoothed
  /\ Len(Segments) = MaxSegments
  /\ \E v \in Verts(Scene) : Segments[1].weights[v] = One
  /\ \E v \in Verts(Scene) :
       /\ Segments[Len(Segments)].weights[v] = One
       /\ WeightSum(Segments, 1, v) = One

\* C9: the chain has one segment when the deform type is scale-translate or
\* squash-stretch, whatever number is configured, and the configured number
\* of segments otherwise, in the topology and the face set strategies.
C9_EffectiveSegments ==
  Constructed
    => /\ ScalingDeform => Len(Segments) = 1
       /\ (~ScalingDeform /\ build.kind \in {"topology", "face_sets"})
            => Len(Segments) = brush.pose_ik_segments

\* A scaling brush configured with the largest number of segments has built
\* a chain of one segment and reached the stroke.
C9_Witness ==
  /\ pc = "stroke"
  /\ ScalingDeform
  /\ brush.pose_ik_segments = MaxSegments
  /\ build.kind \in {"topology", "face_sets"}
  /\ Len(Segments) = 1
  /\ Segments[1].len > 0

\* The fields ik_chain_origin_heads_init derives, in a chain no frame has
\* touched: heads chained to the origins before them, initial positions
\* equal to the current ones, lengths and unit scales.
HeadsInitialized ==
  /\ \A i \in 2..Len(Segments) : Segments[i].head = Segments[i - 1].orig
  /\ \A i \in 1..Len(Segments) :
       /\ Segments[i].initial_orig = Segments[i].orig
       /\ Segments[i].initial_head = Segments[i].head
       /\ Segments[i].len = Distance(Segments[i].head, Segments[i].orig)
       /\ Segments[i].scale = <<One, One, One>>

InChainInit == pc \notin {"idle", "smooth", "stroke"}

\* C11: ik_chain_init enables the fake neighbours only when the brush is not
\* connected-only, they are enabled while it constructs the chain, and once
\* it has returned they are disabled, in each of the three strategies.
C11_FakeNeighborsBracketed ==
  /\ fake_neighbors.use_fake_neighbors <=> (InChainInit /\ ~brush.connected_only)
  /\ brush.connected_only => fake_neighbors.fake_neighbor_index = << >>

\* The chain of a brush that is not connected-only was constructed on a mesh
\* of two islands, whose fake neighbours were built, and they are disabled.
C11_Witness ==
  /\ pc = "stroke"
  /\ ~brush.connected_only
  /\ \E v \in Verts(Scene) : fake_neighbors.fake_neighbor_index[v] # FAKE_NEIGHBOR_NONE
  /\ ~fake_neighbors.use_fake_neighbors
  /\ Len(Segments) >= 1

\* The chain was built by the forward-kinematics face set strategy.
FkConstructed == build.kind = "face_sets_fk"

\* The face sets the first flood fill of the strategy discovered, in order,
\* each with the iteration it was discovered at.
FkDiscovered == build.log[1].found

\* The greatest iteration a face set was discovered at.
FkDeepest ==
  CHOOSE d \in {FkDiscovered[k][2] : k \in DOMAIN FkDiscovered} :
    \A k \in DOMAIN FkDiscovered : FkDiscovered[k][2] <= d

\* The first and the last of the discoveries at the greatest iteration.
FkFirstDeepest ==
  CHOOSE k \in DOMAIN FkDiscovered :
    /\ FkDiscovered[k][2] = FkDeepest
    /\ \A j \in 1..(k - 1) : FkDiscovered[j][2] < FkDeepest

FkLastDeepest ==
  CHOOSE k \in DOMAIN FkDiscovered :
    /\ FkDiscovered[k][2] = FkDeepest
    /\ \A j \in (k + 1)..Len(FkDiscovered) : FkDiscovered[j][2] < FkDeepest

\* C12 as stated: the masked face set is the discovered face set reached at
\* the greatest iteration, the first discovered among those of that
\* iteration; the target face set is the first face set discovered.
C12_MaskedFirstOnTie ==
  (FkConstructed /\ FkDiscovered # << >>)
    => /\ build.log[1].masked_face_set = FkDiscovered[FkFirstDeepest][1]
       /\ build.log[1].target_face_set = FkDiscovered[1][1]

\* C12: the masked face set is the discovered face set reached at the
\* greatest iteration, the last discovered among those of that iteration;
\* the target face set is the first face set discovered; without a
\* discovery both are SCULPT_FACE_SET_NONE.
C12_MaskedLastOnTie ==
  FkConstructed
    => IF FkDiscovered = << >>
       THEN /\ build.log[1].masked_face_set = SCULPT_FACE_SET_NONE
            /\ build.log[1].target_face_set = SCULPT_FACE_SET_NONE
       ELSE /\ build.log[1].masked_face_set = FkDiscovered[FkLastDeepest][1]
            /\ build.log[1].masked_face_set_it = FkDeepest
            /\ build.log[1].target_face_set = FkDiscovered[1][1]
            /\ \A j, k \in DOMAIN FkDiscovered :
                 j # k => FkDiscovered[j][1] # FkDiscovered[k][1]

\* Two face sets other than the active one were discovered at the greatest
\* iteration; the masked face set is the later of them and the target face
\* set is another one.
C12_Witness ==
  /\ FkConstructed
  /\ Len(FkDiscovered) >= 2
  /\ FkFirstDeepest # FkLastDeepest
  /\ FkDiscovered[FkFirstDeepest][1] # active_face_set_get(Scene)
  /\ FkDiscovered[FkLastDeepest][1] # active_face_set_get(Scene)
  /\ build.log[1].masked_face_set = FkDiscovered[FkLastDeepest][1]
  /\ build.log[1].target_face_set # build.log[1].masked_face_set

\* The vertices the first flood fill of the forward-kinematics strategy
\* traversed that have the active face set and the given one.
FkTraversed(face_set) ==
  {v \in build.log[1].reached :
     /\ vert_has_face_set(Scene, v, active_face_set_get(Scene))
     /\ vert_has_face_set(Scene, v, face_set)}

\* The centroid of a non-empty set of vertices.
Centroid(S) == VDivInt(Accumulate(Scene, S).pos_avg, Accumulate(Scene, S).pos_count)

\* C13: in the forward-kinematics face set strategy the head of the segment
\* is the centroid of the traversed vertices that have both the active and
\* the target face set, or the initial location when there is no such
\* vertex, and the chain's grab_delta_offset is the head less the initial
\* location.
C13_HeadIsTargetCentroid ==
  (FkConstructed /\ Constructed /\ frames = 0)
    => /\ Segments[1].head =
            IF FkTraversed(build.log[1].target_face_set) # {}
            THEN Centroid(FkTraversed(build.log[1].target_face_set))
            ELSE Scene.location
       /\ chain.grab_delta_offset = VSub(Segments[1].head, Scene.location)

\* The value the applicator wrote for the vertex v: its position when the
\* brush deforms the geometry, its deformation target when it deforms the
\* cloth.
Written(v) ==
  IF Scene.deform_target = "BRUSH_DEFORM_TARGET_GEOMETRY"
  THEN mesh.positions[v] ELSE mesh.deformation_pos[v]

\* The vertex v has a weight of zero in every segment.
Unweighted(v) == \A i \in 1..Len(Segments) : Segments[i].weights[v] = 0

\* Every matrix composed in the last frame is finite.
FiniteTransforms ==
  \A i \in 1..Len(Segments) : \A k \in 1..PAINT_SYMM_AREAS :
    /\ IsFiniteM(Segments[i].trans_mat[k])
    /\ IsFiniteM(Segments[i].pivot_mat[k])
    /\ IsFiniteM(Segments[i].pivot_mat_inv[k])

\* C14: after a frame, a vertex whose factor is zero or whose weight is zero
\* in every segment is written its original position, whatever the segments'
\* transforms are, and every vertex is written its original position plus
\* its factor times the sum over the segments of the segment's weight times
\* the segment's displacement of the original position.
C14_ZeroFactorStays ==
  frames > 0 =>
    \A v \in Verts(Scene) :
      /\ (VertFactor(Scene, v) = 0 \/ Unweighted(v))
           => Written(v) = vertex_co_get(Scene, v)
      /\ Written(v)
           = Add3(vertex_co_get(Scene, v),
                  mul_v3_fl(SegmentsTranslation(Segments, 1, v, vertex_co_get(Scene, v)),
                            VertFactor(Scene, v)))

\* The brush deforms the cloth simulation.
ClothTarget == Scene.deform_target = "BRUSH_DEFORM_TARGET_CLOTH_SIM"

\* C15: a frame of a brush that deforms the cloth writes the original
\* position plus the blended translation into deformation_pos for every
\* vertex and leaves the positions alone; a frame of a brush that deforms the
\* geometry writes the positions and leaves deformation_pos alone; whatever
\* the representation of the mesh is.
C15_TargetBufferWritten ==
  [][frames' = frames + 1 =>
       \A v \in Verts(Scene) :
         \A translation \in {VertTranslation(Scene, chain'.segments, v)} :
           IF ClothTarget
           THEN /\ mesh'.positions[v] = mesh.positions[v]
                /\ mesh'.deformation_pos[v]
                     = Add3(vertex_co_get(Scene, v), translation)
           ELSE /\ mesh'.deformation_pos = mesh.deformation_pos
                /\ mesh'.positions[v]
                     = Add3(mesh.positions[v],
                            Sub3(translation,
                                 Sub3(mesh.positions[v], vertex_co_get(Scene, v))))]_vars

\* A frame moved the deformation target of a vertex of a BMesh's cloth.
C15_Witness ==
  /\ frames > 0
  /\ ClothTarget
  /\ Scene.pbvh_type = "BMesh"
  /\ \E v \in Verts(Scene) :
       /\ IsFinite3(mesh.deformation_pos[v])
       /\ mesh.deformation_pos[v] # mesh.positions[v]

\* The point p through pivot_mat_inv and then pivot_mat of the segment i for
\* the symmetry area k.
PivotRoundTrip(i, k, p) ==
  transform_point(Segments[i].pivot_mat[k],
                  transform_point(Segments[i].pivot_mat_inv[k], p))

\* C16: after a frame, for every segment and every symmetry area, a point
\* transformed by pivot_mat_inv and then by pivot_mat is the point itself.
C16_PivotRoundTrip ==
  frames > 0 =>
    \A i \in 1..Len(Segments) : \A k \in 1..PAINT_SYMM_AREAS :
      \A v \in Verts(Scene) :
        Near3(PivotRoundTrip(i, k, vertex_co_get(Scene, v)), vertex_co_get(Scene, v))

\* Every node of the running ring is done.
RingDone == pc = "grow" /\ par.running /\ par.pending = {}

\* C17: whatever the order in which the nodes of a ring are processed and
\* whatever the threads that process them, a node leaves the factors of the
\* vertices of the pending nodes at their snapshot values, and once every
\* node is done the factors and the joined accumulator are those of the ring
\* computed from the snapshot alone.
C17_RingOrderIndependent ==
  (pc = "grow" /\ par.running) =>
    /\ \A v \in Verts(Scene) :
         NodeOf(Scene, v) \in par.pending
           => build.pose_factor_grow[v] = par.prev_mask[v]
    /\ RingDone =>
         /\ build.pose_factor_grow
              = grow_factors_mesh(Scene, fake_neighbors.fake_neighbor_index,
                                  par.prev_mask, par.prev_mask)
         /\ JoinFrom(par.gftd, 1)
              = GrowFactorData(Scene, fake_neighbors.fake_neighbor_index,
                               grow.pose_target, par.prev_mask)

\* A ring is done whose grown vertices were accumulated by two threads and
\* lie in two nodes at least.
C17_Witness ==
  /\ RingDone
  /\ par.gftd[1].pos_count > 0
  /\ par.gftd[2].pos_count > 0
  /\ build.pose_factor_grow # par.prev_mask

\* The target the rotate solve of a frame with the input in starts with.
InitialTarget(in) ==
  IF brush.pose_deform_type = "BRUSH_POSE_DEFORM_ROTATE_TWIST"
  THEN VAdd(VAdd(Scene.location, in.grab_delta), chain.grab_delta_offset)
  ELSE VAdd(Scene.location, in.grab_delta)

\* The head the loop of the rotate solve gives a segment for a target.
LoopHeadFor(seg, target) ==
  VAdd(seg.orig, VMulFl(Normalize(VSub(target, seg.orig)), seg.len))

\* The vector the anchor step moved the solved chain by, from the head of
\* the first segment; zero without the anchor flag.
AnchorShift(solved, in) ==
  IF brush.ik_anchored
  THEN VSub(solved[1].head, LoopHeadFor(Segments[1], InitialTarget(in)))
  ELSE Zero3

\* The origin and the head the loop of the rotate solve stored for segment i.
LoopOrig(solved, in, i) == VSub(solved[i].orig, AnchorShift(solved, in))

LoopHead(solved, in, i) == VSub(solved[i].head, AnchorShift(solved, in))

\* The target segment i was solved against: the initial target, or the origin
\* stored for the segment before it.
RunningTarget(solved, in, i) ==
  IF i = 1 THEN InitialTarget(in) ELSE LoopOrig(solved, in, i - 1)

\* A step is a frame that ran the rotate solve.
RotateSolveStep == frames' = frames + 1 /\ RotateSolved'

\* C18 as stated: in a frame that runs the rotate solve, the new head of each
\* segment is its current origin plus its direction to the running target
\* times its length, and its new origin is the running target minus the new
\* head, the running target being the new origin of the segment before it.
C18_OriginIsTargetMinusHead ==
  [][RotateSolveStep =>
       \A i \in 1..Len(Segments) :
         /\ LoopHead(chain'.segments, last', i)
              = LoopHeadFor(Segments[i], RunningTarget(chain'.segments, last', i))
         /\ LoopOrig(chain'.segments, last', i)
              = VSub(RunningTarget(chain'.segments, last', i),
                     LoopHead(chain'.segments, last', i))]_vars

\* C18 amended: the new origin is the current origin plus the running target
\* minus the new head.
C18_OriginMovedByDifference ==
  [][RotateSolveStep =>
       \A i \in 1..Len(Segments) :
         /\ LoopHead(chain'.segments, last', i)
              = LoopHeadFor(Segments[i], RunningTarget(chain'.segments, last', i))
         /\ LoopOrig(chain'.segments, last', i)
              = VAdd(Segments[i].orig,
                     VSub(RunningTarget(chain'.segments, last', i),
                          LoopHead(chain'.segments, last', i)))]_vars

\* A rotate solve moved the origins of a chain of several segments, none of
\* which was at the zero vector before.
C18_Witness ==
  /\ RotateSolved
  /\ frames = MaxFrames
  /\ Len(Segments) > 1
  /\ \A i \in 1..Len(Segments) :
       Segments[i].orig # Segments[i].initial_orig /\ Segments[i].initial_orig # Zero3

\* A step is an iteration of grow_pose_factor called with a pose origin whose
\* ring has a centroid.
OriginRingStep ==
  /\ pc = "grow"
  /\ grow.pose_origin # Null
  /\ grow'.ring = grow.ring + 1
  /\ grow'.count # 0

\* C19: in an iteration of grow_pose_factor called with a pose origin, the
\* loop goes on with the grown factors if the centroid of the ring is
\* strictly closer to the origin than the centroid of every ring before it,
\* and otherwise it stops and the factors are those before the ring.
C19_GrowsWhileCloser ==
  [][OriginRingStep =>
       IF Distance(grow'.avg, grow.pose_origin) < grow'.closest
       THEN /\ grow'.grow_next_iteration
            /\ pc' = "grow"
            /\ build'.pose_factor_grow
                 = grow_factors_mesh(Scene, fake_neighbors.fake_neighbor_index,
                                     build.pose_factor_grow, build.pose_factor_grow)
       ELSE /\ ~grow'.grow_next_iteration
            /\ pc' # "grow"
            /\ build'.pose_factor_grow = build.pose_factor_grow]_vars

\* grow_pose_factor called with a pose origin stopped at its third ring or a
\* later one, whose centroid was not closer, and undid the ring.
C19_Witness ==
  /\ grow # NoGrow
  /\ ~grow.grow_next_iteration
  /\ grow.pose_origin # Null
  /\ grow.ring >= 3
  /\ grow.count # 0
  /\ grow.len >= grow.closest
  /\ grow.closest < FLT_MAX
  /\ build.kind = "topology"
  /\ build.pose_factor_grow = grow.entry_mask
  /\ build.pose_factor_grow
       # grow_factors_mesh(Scene, fake_neighbors.fake_neighbor_index,
                           grow.entry_mask, grow.entry_mask)

\* grow_pose_factor, called with a pose origin by calc_pose_data, is running
\* or has just returned.
OriginGrown ==
  /\ pc \in {"grow", "topology_first"}
  /\ grow # NoGrow
  /\ grow.pose_origin # Null

\* The call of grow_pose_factor with a pose origin stopped at a ring that has
\* a centroid and a ring before it.
OriginGrowthStopped ==
  /\ OriginGrown
  /\ pc = "topology_first"
  /\ grow.ring >= 2
  /\ grow.count # 0

\* C20 as stated: when grow_pose_factor called with a pose origin stops, the
\* pose origin calc_pose_data returns is the centroid of the ring before the
\* one that stopped the growth.
C20_OriginIsPreviousCentroid ==
  OriginGrowthStopped => Near3(Segments[1].orig, grow.prev_avg)

\* C20 amended: during and after the growth with a pose origin, the pose
\* origin calc_pose_data returns is the origin it handed to the growth, the
\* offset origin; the growth writes no origin.
C20_OriginIsOffsetOrigin ==
  OriginGrown => Segments[1].orig = grow.pose_origin

\* The growth with a pose origin stopped at a third ring or later, and the
\* centroid of the ring before it is not the origin returned.
C20_Witness ==
  /\ OriginGrowthStopped
  /\ grow.ring >= 3
  /\ ~Near3(Segments[1].orig, grow.prev_avg)

\* The vertices adjacent to v: its topological neighbours, and its fake
\* neighbour when it has one.
Adjacent(v) ==
  {TopoNeighbors(Scene, v)[k] : k \in 1..Len(TopoNeighbors(Scene, v))}
    \cup (IF fake_neighbors.fake_neighbor_index # << >>
             /\ fake_neighbors.fake_neighbor_index[v] # FAKE_NEIGHBOR_NONE
          THEN {fake_neighbors.fake_neighbor_index[v]} ELSE {})

\* The greatest value the snapshot of the running ring has at a vertex
\* adjacent to v.
SnapshotMax(v) == SetMax({par.prev_mask[n] : n \in Adjacent(v)} \cup {0})

\* C21: in a ring, the factor of a vertex whose node is done is the greatest
\* snapshot value of its adjacent vertices (its fake neighbour included) if
\* the vertex is visible and that value is greater than its own snapshot
\* value, and its snapshot value otherwise, whatever was written in the same
\* ring before; a raised vertex has an adjacent vertex that had its new value
\* in the snapshot.
C21_RingReadsSnapshot ==
  (pc = "grow" /\ par.running) =>
    \A v \in Verts(Scene) :
      NodeOf(Scene, v) \notin par.pending =>
        /\ build.pose_factor_grow[v]
             = IF vert_visible_get(Scene, v) /\ SnapshotMax(v) > par.prev_mask[v]
               THEN SnapshotMax(v) ELSE par.prev_mask[v]
        /\ build.pose_factor_grow[v] # par.prev_mask[v]
             => \E n \in Adjacent(v) : par.prev_mask[n] = build.pose_factor_grow[v]

\* A node of a ring raised a vertex to the snapshot value of its fake
\* neighbour, above the snapshot values of its topological neighbours.
C21_Witness ==
  /\ pc = "grow"
  /\ par.running
  /\ \E v \in Verts(Scene) :
       /\ NodeOf(Scene, v) \notin par.pending
       /\ fake_neighbors.fake_neighbor_index # << >>
       /\ fake_neighbors.fake_neighbor_index[v] # FAKE_NEIGHBOR_NONE
       /\ build.pose_factor_grow[v] > par.prev_mask[v]
       /\ \A k \in 1..Len(TopoNeighbors(Scene, v)) :
            par.prev_mask[TopoNeighbors(Scene, v)[k]] < build.pose_factor_grow[v]

\* ik_chain_init_face_sets has returned.
FaceSetsBuilt == pc = "ik_chain_init_end" /\ build.kind = "face_sets"

\* The vertex the flood fill of segment i starts from, and its partition.
FaceSetsSeed(i) == IF i = 1 THEN Scene.active ELSE build.log[i - 1].next_vertex

FaceSetsPartition(i) == build.log[i].current_face_set

\* The vertex is visible and on the side of the symmetry planes where the
\* flood fill of segment i started.
SymmetryEligible(i, v) ==
  /\ vert_visible_get(Scene, v)
  /\ check_vertex_pivot_symmetry(vertex_co_get(Scene, v),
                                 vertex_co_get(Scene, FaceSetsSeed(i)), Scene.symm)

\* The vertices adjacent to v that lie in the face set and not in the
\* partition of segment i.
LeadingTo(i, v, face_set) ==
  {n \in Adjacent(v) : /\ vert_has_face_set(Scene, n, face_set)
                        /\ ~vert_has_face_set(Scene, n, FaceSetsPartition(i))}

\* The symmetry-eligible vertices of the partition of segment i, and those
\* of them with an edge to the partition chosen for the next segment.
PartitionMembers(i) ==
  {v \in Verts(Scene) :
     SymmetryEligible(i, v) /\ vert_has_face_set(Scene, v, FaceSetsPartition(i))}

NextBoundary(i) ==
  {v \in PartitionMembers(i) :
     /\ build.log[i].next_face_set_found
     /\ LeadingTo(i, v, build.log[i].next_face_set) # {}}

CountedMembers(i) == {v \in build.log[i].taken : SymmetryEligible(i, v)}

UnvisitedBoundary(i) ==
  {v \in CountedMembers(i) :
     /\ ~vert_has_unique_face_set(Scene, v)
     /\ \E n \in Adjacent(v) :
          /\ vert_has_unique_face_set(Scene, n)
          /\ vert_face_set_get(Scene, n) \notin build.log[i].visited_face_sets}

WeightedIn(v) == {i \in 1..Len(Segments) : Segments[i].weights[v] # 0}

\* C23: when ik_chain_init_face_sets has returned, before the weights are
\* smoothed, every vertex has a weight other than zero in one segment at
\* most, whatever the number of segments and whether or not a next face set
\* was found for each of them.
C23_WeightedInOneSegment ==
  FaceSetsBuilt => \A v \in Verts(Scene) : Cardinality(WeightedIn(v)) <= 1

\* A step is a call of do_pose_brush on a symmetry pass other than the first.
MirrorPassStep == mirror_symmetry_pass' # 0 /\ mirror_symmetry_pass' # mirror_symmetry_pass

\* C24: a call of do_pose_brush on a symmetry pass other than 0 changes no
\* segment and writes no position and no cloth target; during the stroke the
\* segments, the positions and the cloth targets change on pass 0 only, and
\* pass 0 leaves every segment with the matrices of all symmetry areas.
C24_MirrorPassReturns ==
  [][/\ MirrorPassStep => (chain' = chain /\ mesh' = mesh /\ frames' = frames)
     /\ (pc = "stroke" /\ (chain' # chain \/ mesh' # mesh))
          => (mirror_symmetry_pass' = 0 /\ frames' = frames + 1)
     /\ frames' = frames + 1
          => \A i \in 1..Len(chain'.segments) :
               /\ DOMAIN chain'.segments[i].trans_mat = 1..PAINT_SYMM_AREAS
               /\ DOMAIN chain'.segments[i].pivot_mat = 1..PAINT_SYMM_AREAS
               /\ DOMAIN chain'.segments[i].pivot_mat_inv = 1..PAINT_SYMM_AREAS]_vars

\* A mirror pass was called after a frame that moved a vertex on the far
\* side of a symmetry plane.
C24_Witness ==
  /\ pc = "stroke"
  /\ mirror_symmetry_pass # 0
  /\ \E v \in Verts(Scene) :
       /\ get_vertex_symm_area(vertex_co_get(Scene, v)) # 0
       /\ IsFinite3(mesh.positions[v])
       /\ mesh.positions[v] # vertex_co_get(Scene, v)

\* The weights of the segments of a chain, segment by segment.
Weights(ik_chain) == [i \in 1..Len(ik_chain.segments) |-> ik_chain.segments[i].weights]

\* The sum of the weights of the vertex v in the segments before segment i.
RECURSIVE WeightSumBefore(_, _, _)
WeightSumBefore(segments, i, v) ==
  IF i <= 1 THEN 0
  ELSE segments[i - 1].weights[v] + WeightSumBefore(segments, i - 1, v)

\* C25: the weights are smoothed by one step only, the loop of
\* pose_brush_init after ik_chain_init has returned, which smooths the
\* weights of every segment; no other step after it changes a weight; and
\* while the topology strategy derives the weights of a segment, the weights
\* of the segments before it are still the differences of the cumulative
\* factors, which they sum up to.
C25_SmoothedAfterConstruction ==
  [][/\ (pc = "smooth" /\ pc' = "stroke")
          => \A i \in 1..Len(chain.segments) :
               chain'.segments[i].weights
                 = blur_geometry_data_array(Scene, Scene.pose_smooth_iterations,
                                            chain.segments[i].weights)
     /\ pc = "stroke" => Weights(chain') = Weights(chain)
     /\ pc = "ik_chain_init_end" => Weights(chain') = Weights(chain)
     /\ (pc' # "stroke" /\ build' # NoBuild /\ build'.kind = "topology"
           /\ build'.i >= 2)
          => \A v \in Verts(Scene) :
               WeightSumBefore(chain'.segments, build'.i, v)
                 = build'.pose_factor_grow_prev[v]]_vars

\* The weights of a chain of two segments or more built by topology were
\* smoothed, and the smoothing changed weights of its last segment.
C25_Witness ==
  /\ pc = "stroke"
  /\ build.kind = "topology"
  /\ Len(Segments) >= 2
  /\ \E v \in Verts(Scene) :
       /\ Segments[Len(Segments)].weights[v] # 0
       /\ Segments[Len(Segments)].weights[v] # One

\* The factors grow_pose_factor grows.
PoseFactor == build.pose_factor_grow

\* An iteration of grow_pose_factor was followed by another one.
GrowWentOn == pc = "grow" /\ grow.ring >= 1

\* C26: every iteration of grow_pose_factor that is followed by another one
\* raised the factor of a vertex at least and lowered none, every factor
\* after an iteration is a factor some vertex had before it, and every call
\* of grow_pose_factor returns, with or without a pose origin.
C26_GrowTerminates ==
  /\ [](GrowWentOn =>
          /\ \E v \in Verts(Scene) : PoseFactor[v] > grow.entry_mask[v]
          /\ \A v \in Verts(Scene) : PoseFactor[v] >= grow.entry_mask[v])
  /\ []((grow # NoGrow /\ grow.ring >= 1) =>
          \A v \in Verts(Scene) : \E u \in Verts(Scene) :
            PoseFactor[v] = grow.entry_mask[u])
  /\ (pc = "grow") ~> (pc # "grow")

\* The call of grow_pose_factor with a pose origin has returned, and a call
\* without one went on after its first iteration.
C26_Witness ==
  /\ pc = "grow"
  /\ grow.ring >= 2
  /\ grow.pose_origin = Null
  /\ brush.pose_offset # 0

\* C27: no iteration of grow_pose_factor, the one that rolls back included,
\* leaves the factor of a vertex lower than it was before the iteration, so
\* that a call never leaves a factor lower than on entry; and the weights
\* the topology strategy derives for a segment after the first, the grown
\* factors less the factors before the call, are not negative.
C27_GrowNeverLowers ==
  [][/\ pc = "grow" => \A v \in Verts(Scene) : PoseFactor'[v] >= PoseFactor[v]
     /\ (pc = "grow" /\ pc' = "topology_weights")
          => \A v \in Verts(Scene) : PoseFactor'[v] >= build.pose_factor_grow_prev[v]
     /\ pc = "topology_weights"
          => \A v \in Verts(Scene) :
               /\ chain'.segments[build.i].weights[v]
                    = PoseFactor[v] - build.pose_factor_grow_prev[v]
               /\ chain'.segments[build.i].weights[v] >= 0]_vars

\* A call of grow_pose_factor stopped by rolling back a ring that had raised
\* vertices, and the segment got weights from the rings before.
C27_Witness ==
  /\ pc = "topology_loop"
  /\ build.i > 2
  /\ grow.pose_origin = Null
  /\ grow.count > 0
  /\ grow.ring >= 2
  /\ \E v \in Verts(Scene) : Segments[build.i - 1].weights[v] = One

\* C28: after a rotate solve, with or without the anchor flag, the distance
\* between the orig of every segment after the first and the orig of the
\* segment before it is the segment's len, and without the anchor flag the
\* distance between the first segment's orig and the target is its len.
C28_OriginsSpacedByLen ==
  RotateSolved =>
    /\ \A i \in 2..Len(Segments) :
         Abs(Distance(Segments[i].orig, Segments[i - 1].orig) - Segments[i].len) <= Eps
    /\ ~brush.ik_anchored
         => Abs(Distance(Segments[1].orig, InitialTarget(last)) - Segments[1].len) <= Eps

\* A step is the second of two rotate solves in succession with the same
\* target, without the anchor flag.
SecondSolveStep ==
  /\ RotateSolved
  /\ RotateSolveStep
  /\ ~brush.ik_anchored
  /\ last'.grab_delta = last.grab_delta

\* Rounding tolerance of a component of the rotation of a segment of length
\* len.  The quaternion of a rotation between two vectors is computed from
\* their cosine, known to a few parts in One, so the sine of half a small
\* angle is known to Sqrt(One) only; and a direction taken between two
\* positions len apart, each rounded to the unit, is known to One / len.
QuatEps(len) == 8 * Eps + (IF len > 0 THEN One \div len ELSE 0)

\* Equality of two quaternions within a tolerance.
NearQuat(a, b, eps) == \A k \in 1..4 : Abs(a[k] - b[k]) <= eps

\* C29: without the anchor flag, the second of two rotate solves in succession
\* with the same target leaves the orig and the rot of every segment as the
\* first solve left them, and the head of every segment is then the target the
\* segment was solved against.
C29_SecondSolveIsFixedPoint ==
  [][SecondSolveStep =>
       \A i \in 1..Len(Segments) :
         /\ Near3(chain'.segments[i].orig, Segments[i].orig)
         /\ NearQuat(chain'.segments[i].rot, Segments[i].rot, QuatEps(Segments[i].len))
         /\ Near3(chain'.segments[i].head,
                  RunningTarget(chain'.segments, last', i))]_vars

\* Two frames ran and the last one ran the rotate solve without the anchor
\* flag on a chain of several segments, for a target away from the stroke's
\* start that is not at the first segment's length from its constructed
\* origin: every head is on the target its segment was solved against, and
\* the first origin is away from where construction put it.
C29_Witness ==
  /\ frames = 2
  /\ RotateSolved
  /\ ~brush.ik_anchored
  /\ Len(Segments) >= 2
  /\ last.grab_delta # Zero3
  /\ Abs(Distance(InitialTarget(last), Segments[1].initial_orig) - Segments[1].len) > Eps
  /\ ~Near3(Segments[1].orig, Segments[1].initial_orig)
  /\ \A i \in 1..Len(Segments) :
       Near3(Segments[i].head, RunningTarget(Segments, last, i))

\* C30: in the face-set strategy the visited face sets only grow from a flood
\* fill to the next, the face set a flood fill chose for the next segment is
\* not among the visited ones, and no face set other than the 'none' id is the
\* current face set of two segments of the chain.
C30_FaceSetsNeverRevisited ==
  FaceSetsBuilt =>
    /\ \A i \in 2..Len(build.log) :
         build.log[i - 1].visited_face_sets \subseteq build.log[i].visited_face_sets
    /\ \A i \in 1..Len(build.log) :
         build.log[i].next_face_set_found
           => build.log[i].next_face_set \notin build.log[i].visited_face_sets
    /\ \A i, j \in 1..Len(build.log) :
         (i # j /\ FaceSetsPartition(i) # SCULPT_FACE_SET_NONE)
           => FaceSetsPartition(i) # FaceSetsPartition(j)

====
